---- MODULE Spec2Model ----
(***************************************************************************)
(* A model of LawComparator (src/law_comparator.py) and LawParser          *)
(* (src/law_parser.py).                                                    *)
(*                                                                         *)
(* Texts are sequences of one-character strings.  The characters of the    *)
(* statutes are written by ASCII names:                                    *)
(*   "di" U+7B2C   "zhang" U+7AE0   "jie" U+8282   "tiao" U+6761           *)
(*   "yi" "er" "san" "si" "wu" "liu" "qi" "ba" "jiu"  the digits 1..9      *)
(*   "shi" U+5341  "bai" U+767E  "qian" U+5343  "wan" U+4E07  "ling" U+96F6*)
(*   "F." U+3002 (full-width period), "F," U+FF0C, and so on for the       *)
(*   full-width punctuation marks; "dun" U+3001                            *)
(*   " " the ASCII space, "isp" U+3000 the ideographic space               *)
(*   every other name is an ordinary character of the text                 *)
(* A Python dict is a sequence of records in insertion order with          *)
(* pairwise different keys.  A float similarity is the exact fraction      *)
(* <<numerator, denominator>>; fractions are compared by cross             *)
(* multiplication, which agrees with the comparison of the correctly       *)
(* rounded doubles for the text lengths of the model.                      *)
(***************************************************************************)
EXTENDS Integers, Sequences, FiniteSets, TLC

VARIABLES
    pc,                    \* position of the run of the program
    similarity_threshold,  \* LawComparator.similarity_threshold
    manual_matches,        \* LawComparator.manual_matches
    file1, file2,          \* the texts of the files given to parse_file
    law1, law2,            \* the arguments of compare_articles
    matching,              \* the value of intelligent_article_matching
    result,                \* the value of compare_articles, RecursionError when it raised
    args,                  \* the arguments of a direct call of one method
    ret                    \* the values that the direct calls returned

vars == <<pc, similarity_threshold, manual_matches, file1, file2, law1, law2,
          matching, result, args, ret>>

(* Bounds of the model *)

MaxNum == 2
MaxArticles == 2
MaxManual == 2
MaxLines == 3
MaxText == 4
MaxSimText == 3

(* Values *)

None == -9

Max(S) == CHOOSE x \in S : \A y \in S : y <= x
Min(S) == CHOOSE x \in S : \A y \in S : x <= y

RECURSIVE sorted(_)
sorted(S) == IF S = {} THEN <<>> ELSE <<Min(S)>> \o sorted(S \ {Min(S)})

Range(s) == {s[i] : i \in DOMAIN s}

\* fractions
Frac(n, d) == <<n, d>>
Zero == Frac(0, 1)
FracGt(x, y) == x[1] * y[2] > y[1] * x[2]
FracGeq(x, y) == x[1] * y[2] >= y[1] * x[2]
FracEq(x, y) == x[1] * y[2] = y[1] * x[2]

\* dicts keyed by article number
Keys(d) == {d[i].num : i \in DOMAIN d}
Get(d, k) == d[CHOOSE i \in DOMAIN d : d[i].num = k]

(* difflib.SequenceMatcher(None, a, b), with its automatic junk heuristic. *)
(* Indexes are Python's: a[i] of Python is a[i+1] here, ranges are half    *)
(* open.                                                                   *)

\* SequenceMatcher.__chain_b: in a b of 200 elements or more, the elements
\* that occur more than 1 + len(b) // 100 times are popular and anchor no
\* match
bpopular(b) ==
    IF Len(b) >= 200
    THEN {c \in Range(b) : Cardinality({n \in DOMAIN b : b[n] = c}) > Len(b) \div 100 + 1}
    ELSE {}

\* the length of the common run of a[i:ahi] and b[j:bhi]
RunLen(a, b, i, j, ahi, bhi) ==
    LET lim == IF ahi - i < bhi - j THEN ahi - i ELSE bhi - j
    IN  CHOOSE k \in 0 .. lim :
            /\ \A t \in 0 .. k - 1 : a[i + t + 1] = b[j + t + 1]
            /\ k = lim \/ a[i + k + 1] # b[j + k + 1]

\* the length of the common run of a[i:ahi] and b[j:bhi] that holds no
\* popular element
AnchoredLen(a, b, i, j, ahi, bhi, popular) ==
    LET lim == IF ahi - i < bhi - j THEN ahi - i ELSE bhi - j
    IN  CHOOSE k \in 0 .. lim :
            /\ \A t \in 0 .. k - 1 :
                  a[i + t + 1] = b[j + t + 1] /\ a[i + t + 1] \notin popular
            /\ \/ k = lim
               \/ a[i + k + 1] # b[j + k + 1]
               \/ a[i + k + 1] \in popular

\* the length of the common run that ends before a[i] and b[j] and stays
\* in a[alo:] and b[blo:]
BackLen(a, b, i, j, alo, blo) ==
    LET lim == IF i - alo < j - blo THEN i - alo ELSE j - blo
    IN  CHOOSE k \in 0 .. lim :
            /\ \A t \in 1 .. k : a[i - t + 1] = b[j - t + 1]
            /\ k = lim \/ a[i - k] # b[j - k]

\* the longest matching block of a[alo:ahi] and b[blo:bhi]; of the longest
\* ones the one that starts earliest in a, and of those the earliest in b
LongestOf(runs, alo, blo) ==
    IF runs = {} THEN <<alo, blo, 0>>
    ELSE LET k == Max({r[3] : r \in runs})
             i == Min({r[1] : r \in {q \in runs : q[3] = k}})
             j == Min({r[2] : r \in {q \in runs : q[1] = i /\ q[3] = k}})
         IN  <<i, j, k>>

\* the loop over b2j: the longest block of elements that are not popular
AnchoredMatch(a, b, alo, ahi, blo, bhi, popular) ==
    LongestOf({<<p[1], p[2], AnchoredLen(a, b, p[1], p[2], ahi, bhi, popular)>> :
                  p \in {q \in (alo .. ahi - 1) \X (blo .. bhi - 1) :
                            /\ a[q[1] + 1] = b[q[2] + 1]
                            /\ a[q[1] + 1] \notin popular
                            /\ \/ q[1] = alo
                               \/ q[2] = blo
                               \/ a[q[1]] # b[q[2]]
                               \/ a[q[1]] \in popular}},
              alo, blo)

\* the two loops that extend the block by the equal elements before it and
\* behind it, popular or not (no element is junk)
Extended(m, before, behind) == <<m[1] - before, m[2] - before, m[3] + before + behind>>

ExtendMatch(a, b, alo, ahi, blo, bhi, m) ==
    Extended(m, BackLen(a, b, m[1], m[2], alo, blo),
             RunLen(a, b, m[1] + m[3], m[2] + m[3], ahi, bhi))

find_longest_match(a, b, alo, ahi, blo, bhi) ==
    ExtendMatch(a, b, alo, ahi, blo, bhi,
                AnchoredMatch(a, b, alo, ahi, blo, bhi, bpopular(b)))

\* the matching blocks of a[alo:ahi] and b[blo:bhi] in ascending order: the
\* longest block m, and the blocks to its left and to its right
RECURSIVE get_matching_blocks(_, _, _, _, _, _)
BlocksAround(a, b, alo, ahi, blo, bhi, m) ==
    IF m[3] = 0 THEN <<>>
    ELSE (IF alo < m[1] /\ blo < m[2]
          THEN get_matching_blocks(a, b, alo, m[1], blo, m[2]) ELSE <<>>)
         \o <<m>> \o
         (IF m[1] + m[3] < ahi /\ m[2] + m[3] < bhi
          THEN get_matching_blocks(a, b, m[1] + m[3], ahi, m[2] + m[3], bhi)
          ELSE <<>>)

get_matching_blocks(a, b, alo, ahi, blo, bhi) ==
    BlocksAround(a, b, alo, ahi, blo, bhi, find_longest_match(a, b, alo, ahi, blo, bhi))

RECURSIVE SumSizes(_)
SumSizes(blocks) ==
    IF blocks = <<>> THEN 0 ELSE Head(blocks)[3] + SumSizes(Tail(blocks))

ratio(a, b) ==
    IF Len(a) + Len(b) = 0 THEN Frac(1, 1)
    ELSE Frac(2 * SumSizes(get_matching_blocks(a, b, 0, Len(a), 0, Len(b))),
              Len(a) + Len(b))

calculate_similarity(text1, text2) ==
    IF text1 = <<>> \/ text2 = <<>> THEN Zero ELSE ratio(text1, text2)

(* LawComparator.find_best_match: scan of the candidates in dict order *)

\* one pass of the loop: the best match <<number, similarity>> after the
\* candidate article_num of similarity similarity
BestStep(best, article_num, similarity, used_articles) ==
    IF article_num \in used_articles THEN best
    ELSE IF FracGt(similarity, best[2]) THEN <<article_num, similarity>>
    ELSE best

RECURSIVE find_best_loop(_, _, _, _, _)
find_best_loop(target_content, candidate_articles, used_articles, i, best) ==
    IF i > Len(candidate_articles) THEN best
    ELSE find_best_loop(target_content, candidate_articles, used_articles, i + 1,
             BestStep(best, candidate_articles[i].num,
                      calculate_similarity(target_content, candidate_articles[i].content),
                      used_articles))

find_best_match(target_article, candidate_articles, used_articles) ==
    find_best_loop(target_article.content, candidate_articles, used_articles,
                   1, <<-1, Zero>>)

(* LawComparator.intelligent_article_matching.  The state of its loops is  *)
(* [matches, used_articles1, used_articles2, manual_matches_processed]; a  *)
(* match is the tuple <<old number, new number, similarity, match type>>.  *)

MatchState0 ==
    [matches |-> <<>>, used_articles1 |-> {}, used_articles2 |-> {},
     manual_matches_processed |-> 0]

\* the recording of a manual pair, without the consumption of its old number
RecordManual_KeepsOld(st, old_num, new_num, similarity) ==
    [matches |-> Append(st.matches, <<old_num, new_num, similarity, "manual">>),
     used_articles1 |-> st.used_articles1,
     used_articles2 |-> st.used_articles2 \cup {new_num},
     manual_matches_processed |-> st.manual_matches_processed + 1]

\* the recording of a manual pair both of whose articles exist
RecordManual(st, old_num, new_num, similarity) ==
    [matches |-> Append(st.matches, <<old_num, new_num, similarity, "manual">>),
     used_articles1 |-> st.used_articles1 \cup {old_num},
     used_articles2 |-> st.used_articles2 \cup {new_num},
     manual_matches_processed |-> st.manual_matches_processed + 1]

\* the skipping of a pair, with the consumption of its numbers
SkipManual_Consumes(st, old_num, new_num) ==
    [st EXCEPT !.used_articles1 = @ \cup {old_num},
               !.used_articles2 = @ \cup {new_num}]

\* the skipping of a manual pair that names a missing article
SkipManual(st, old_num, new_num) == st

\* one pass of the loop over self.manual_matches
ManualStep(st, match, articles1, articles2) ==
    IF match.old_number \in Keys(articles1) /\ match.new_number \in Keys(articles2)
    THEN RecordManual(st, match.old_number, match.new_number,
             calculate_similarity(Get(articles1, match.old_number).content,
                                  Get(articles2, match.new_number).content))
    ELSE SkipManual(st, match.old_number, match.new_number)

RECURSIVE ManualPhase(_, _, _, _, _)
ManualPhase(st, mm, i, articles1, articles2) ==
    IF i > Len(mm) THEN st
    ELSE ManualPhase(ManualStep(st, mm[i], articles1, articles2),
                     mm, i + 1, articles1, articles2)

\* Remaining that takes every article of d
Remaining_All(d, used) == d

\* the articles of d whose number is not in used, in the order of d
Remaining(d, used) == SelectSeq(d, LAMBDA r : r.num \notin used)

\* AutoDecide that takes the best candidate whatever its similarity
AutoDecide_NoThreshold(st, article1_num, best, threshold) ==
    IF best[1] # -1
    THEN [st EXCEPT !.matches = Append(@, <<article1_num, best[1], best[2], "auto">>),
                    !.used_articles2 = @ \cup {best[1]}]
    ELSE [st EXCEPT !.matches = Append(@, <<article1_num, -1, Zero, "none">>)]

\* AutoDecide that wants a similarity above the threshold
AutoDecide_Above(st, article1_num, best, threshold) ==
    IF best[1] # -1 /\ FracGt(best[2], threshold)
    THEN [st EXCEPT !.matches = Append(@, <<article1_num, best[1], best[2], "auto">>),
                    !.used_articles2 = @ \cup {best[1]}]
    ELSE [st EXCEPT !.matches = Append(@, <<article1_num, -1, Zero, "none">>)]

\* AutoDecide that records the best similarity in the entry of an unmatched
\* article
AutoDecide_KeepsSimilarity(st, article1_num, best, threshold) ==
    IF best[1] # -1 /\ FracGeq(best[2], threshold)
    THEN [st EXCEPT !.matches = Append(@, <<article1_num, best[1], best[2], "auto">>),
                    !.used_articles2 = @ \cup {best[1]}]
    ELSE [st EXCEPT !.matches = Append(@, <<article1_num, -1, best[2], "none">>)]

\* the decision on the best match <<best_match_num, best_similarity>>
AutoDecide(st, article1_num, best, threshold) ==
    IF best[1] # -1 /\ FracGeq(best[2], threshold)
    THEN [st EXCEPT !.matches = Append(@, <<article1_num, best[1], best[2], "auto">>),
                    !.used_articles2 = @ \cup {best[1]}]
    ELSE [st EXCEPT !.matches = Append(@, <<article1_num, -1, Zero, "none">>)]

\* one pass of the loop over sorted(remaining_articles1.keys())
AutoStep(st, article1_num, remaining_articles1, remaining_articles2, threshold) ==
    AutoDecide(st, article1_num,
               find_best_match(Get(remaining_articles1, article1_num),
                               remaining_articles2, st.used_articles2),
               threshold)

\* AutoPhase that is skipped when no new article remains
RECURSIVE AutoPhase_SkipsEmpty(_, _, _, _, _, _)
AutoPhase_SkipsEmpty(st, order, i, remaining_articles1, remaining_articles2, threshold) ==
    IF i > Len(order) \/ remaining_articles2 = <<>> THEN st
    ELSE AutoPhase_SkipsEmpty(AutoStep(st, order[i], remaining_articles1,
                                       remaining_articles2, threshold),
                              order, i + 1, remaining_articles1,
                              remaining_articles2, threshold)

RECURSIVE AutoPhase(_, _, _, _, _, _)
AutoPhase(st, order, i, remaining_articles1, remaining_articles2, threshold) ==
    IF i > Len(order) THEN st
    ELSE AutoPhase(AutoStep(st, order[i], remaining_articles1,
                            remaining_articles2, threshold),
                   order, i + 1, remaining_articles1, remaining_articles2,
                   threshold)

\* ResidualPhase that forgets the consumed numbers
ResidualPhase_All(articles2, used_articles2) == sorted(Keys(articles2))

\* the loop over sorted(articles2.keys()) that collects the new articles
ResidualPhase(articles2, used_articles2) ==
    sorted({n \in Keys(articles2) : n \notin used_articles2})

\* the return value, built from the state of the loops
MatchingResult(st, articles2) ==
    [matches |-> st.matches,
     new |-> ResidualPhase(articles2, st.used_articles2),
     used_articles2 |-> st.used_articles2,
     manual_matches_count |-> st.manual_matches_processed]

\* AutoOnRemaining in the order of the old document
AutoOnRemaining_DictOrder(st, remaining_articles1, remaining_articles2, threshold) ==
    AutoPhase(st, [i \in DOMAIN remaining_articles1 |-> remaining_articles1[i].num], 1,
              remaining_articles1, remaining_articles2, threshold)

\* the automatic phase over the articles that the manual phase left
AutoOnRemaining(st, remaining_articles1, remaining_articles2, threshold) ==
    AutoPhase(st, sorted(Keys(remaining_articles1)), 1,
              remaining_articles1, remaining_articles2, threshold)

\* the phases that follow the manual phase
AfterManual(st, threshold, articles1, articles2) ==
    MatchingResult(AutoOnRemaining(st, Remaining(articles1, st.used_articles1),
                                   Remaining(articles2, st.used_articles2),
                                   threshold),
                   articles2)

intelligent_article_matching(mm, threshold, articles1, articles2) ==
    AfterManual(ManualPhase(MatchState0, mm, 1, articles1, articles2),
                threshold, articles1, articles2)

(* LawComparator.generate_unified_html_diff.  difflib.Differ compares the  *)
(* two texts element by element.  A line is one character, so a replace    *)
(* block has no intraline marks; in a text of 200 elements and more the    *)
(* gaps between matching blocks can hold common elements, on which         *)
(* _fancy_replace synchronises.  The value is the list html_parts, each    *)
(* part <<css class, text>>, or RecursionError when Differ raised it.      *)

IsSpace(c) == c \in {" ", "isp", "nl", "tab"}

html_escape(c) ==
    CASE c = "&" -> "&amp;"
      [] c = "<" -> "&lt;"
      [] c = ">" -> "&gt;"
      [] c = "dq" -> "&quot;"
      [] c = "sq" -> "&#x27;"
      [] OTHER -> c

\* Differ._dump: one line <<tag, element>> for each element of x[lo:hi]
Dump(tag, x, lo, hi) == [n \in 1 .. (hi - lo) |-> <<tag, x[lo + n]>>]

\* Differ._plain_replace
plain_replace(a, alo, ahi, b, blo, bhi) ==
    IF bhi - blo < ahi - alo
    THEN Dump("+", b, blo, bhi) \o Dump("-", a, alo, ahi)
    ELSE Dump("-", a, alo, ahi) \o Dump("+", b, blo, bhi)

\* Differ._fancy_replace and Differ._fancy_helper on lines of one character.
\* No two different lines are similar, so the synch point of a[alo:ahi] and
\* b[blo:bhi] is the first line of b[blo:bhi] that is in a[alo:ahi], at its
\* first place there.  The lines before a synch point hold no synch point of
\* their own; the lines behind it are replaced in the same way.

\* the lines of a stretch without synch point
fancy_helper(a, alo, ahi, b, blo, bhi) ==
    IF alo < ahi
    THEN IF blo < bhi THEN plain_replace(a, alo, ahi, b, blo, bhi)
         ELSE Dump("-", a, alo, ahi)
    ELSE IF blo < bhi THEN Dump("+", b, blo, bhi)
    ELSE <<>>

\* the synch point <<i, j>> of a[alo:ahi] and b[blo:bhi] as a sequence of one
\* element, empty when there is none
SynchJ(a, alo, ahi, b, blo, bhi) ==
    Min({j \in blo .. bhi - 1 : \E i \in alo .. ahi - 1 : a[i + 1] = b[j + 1]})
SynchI(a, alo, ahi, belt) == Min({i \in alo .. ahi - 1 : a[i + 1] = belt})
SynchAt(a, alo, ahi, b, eqj) == <<<<SynchI(a, alo, ahi, b[eqj + 1]), eqj>>>>
Synch(a, alo, ahi, b, blo, bhi) ==
    IF \A j \in blo .. bhi - 1 : \A i \in alo .. ahi - 1 : a[i + 1] # b[j + 1]
    THEN <<>>
    ELSE SynchAt(a, alo, ahi, b, SynchJ(a, alo, ahi, b, blo, bhi))

\* the first n synch points that the calls of _fancy_replace find one behind
\* the other; the chain is computed by halves to keep the recursion flat
RECURSIVE SynchPoints(_, _, _, _, _, _, _)
SynchMore(a, ahi, b, bhi, n, first) ==
    IF Len(first) < n \div 2 THEN first
    ELSE first \o SynchPoints(a, first[Len(first)][1] + 1, ahi,
                              b, first[Len(first)][2] + 1, bhi, n - n \div 2)

SynchPoints(a, alo, ahi, b, blo, bhi, n) ==
    IF n = 0 \/ alo >= ahi \/ blo >= bhi THEN <<>>
    ELSE IF n = 1 THEN Synch(a, alo, ahi, b, blo, bhi)
    ELSE SynchMore(a, ahi, b, bhi, n, SynchPoints(a, alo, ahi, b, blo, bhi, n \div 2))

\* parts[lo] \o ... \o parts[hi], by halves
RECURSIVE JoinParts(_, _, _)
JoinParts(parts, lo, hi) ==
    IF lo > hi THEN <<>>
    ELSE IF lo = hi THEN parts[lo]
    ELSE JoinParts(parts, lo, (lo + hi) \div 2) \o JoinParts(parts, (lo + hi) \div 2 + 1, hi)

\* the lines before the synch point k and its own line, and the lines behind
\* the last synch point
Stretch(a, alo, ahi, b, blo, bhi, points, k) ==
    fancy_helper(a, IF k = 1 THEN alo ELSE points[k - 1][1] + 1,
                 IF k > Len(points) THEN ahi ELSE points[k][1],
                 b, IF k = 1 THEN blo ELSE points[k - 1][2] + 1,
                 IF k > Len(points) THEN bhi ELSE points[k][2])
        \o (IF k > Len(points) THEN <<>> ELSE <<<<" ", a[points[k][1] + 1]>>>>)

Stretches(a, alo, ahi, b, blo, bhi, points) ==
    JoinParts([k \in 1 .. Len(points) + 1 |-> Stretch(a, alo, ahi, b, blo, bhi, points, k)],
              1, Len(points) + 1)

\* The interpreter raises RecursionError when a call needs more frames than
\* sys.getrecursionlimit() allows.  LawComparator leaves the limit at its
\* default and catches no error of Differ.  The parameter depth of a function
\* is the number of frames in use when it is called: 1 at the top level of a
\* script, one more in every function that is being executed.  The callers of
\* the program are a few frames deep, so only the chain of _fancy_replace
\* reaches the limit.
recursion_limit == 1000

\* the outcome of a call that raised RecursionError
RecursionError == <<<<"RecursionError", "maximum recursion depth exceeded">>>>

\* _fancy_replace begins with SequenceMatcher(self.charjunk): the call of the
\* class, __init__, set_seqs, set_seq2 and __chain_b are the deepest frames
\* below the frame of _fancy_replace
MatcherFrames == 5

\* a stretch with lines of both texts calls _fancy_replace once more: the
\* stretch before the last synch point k or the stretch behind it
LastStretches(alo, ahi, blo, bhi, points, k) ==
    \/ /\ (IF k = 1 THEN alo ELSE points[k - 1][1] + 1) < points[k][1]
       /\ (IF k = 1 THEN blo ELSE points[k - 1][2] + 1) < points[k][2]
    \/ /\ points[k][1] + 1 < ahi
       /\ points[k][2] + 1 < bhi

\* the greatest number of calls of _fancy_replace that are active at once:
\* the call that finds a synch point stays active while _fancy_helper and
\* _fancy_replace work on the lines behind that point
Nesting(alo, ahi, blo, bhi, points) ==
    IF points = <<>> THEN 1
    ELSE IF LastStretches(alo, ahi, blo, bhi, points, Len(points))
    THEN Len(points) + 1
    ELSE Len(points)

\* the deepest frame in use: each nested call of _fancy_replace stands two
\* frames below the one before, the frames of _fancy_helper and its own
DeepestFrame(depth, nesting) == depth + 1 + 2 * (nesting - 1) + MatcherFrames

Replaced(a, alo, ahi, b, blo, bhi, points, depth) ==
    IF DeepestFrame(depth, Nesting(alo, ahi, blo, bhi, points)) > recursion_limit
    THEN RecursionError
    ELSE Stretches(a, alo, ahi, b, blo, bhi, points)

fancy_replace(a, alo, ahi, b, blo, bhi, depth) ==
    Replaced(a, alo, ahi, b, blo, bhi,
             SynchPoints(a, alo, ahi, b, blo, bhi, Min({ahi - alo, bhi - blo})),
             depth)

\* SequenceMatcher.get_opcodes and Differ.compare over the matching blocks
\* followed by the sentinel block <<Len(a), Len(b), 0>>
\* the lines of the opcode before a block: replace, delete or insert
\* _fancy_replace is called from the frame of compare
Gap(a, b, i, ai, j, bj, depth) ==
    IF i < ai /\ j < bj THEN fancy_replace(a, i, ai, b, j, bj, depth + 1)
    ELSE IF i < ai THEN Dump("-", a, i, ai)
    ELSE IF j < bj THEN Dump("+", b, j, bj)
    ELSE <<>>

\* list(differ.compare(...)): the lines of all opcodes, or the error that one
\* of them raised
Lines(gap, same, rest) ==
    IF gap = RecursionError \/ rest = RecursionError THEN RecursionError
    ELSE gap \o same \o rest

RECURSIVE differ_compare(_, _, _, _, _, _, _)
differ_compare(a, b, blocks, n, i, j, depth) ==
    IF n > Len(blocks) THEN <<>>
    ELSE Lines(Gap(a, b, i, blocks[n][1], j, blocks[n][2], depth),
               Dump(" ", a, blocks[n][1], blocks[n][1] + blocks[n][3]),
               differ_compare(a, b, blocks, n + 1, blocks[n][1] + blocks[n][3],
                              blocks[n][2] + blocks[n][3], depth))

\* the loop over diff_result: a line whose element is white space gives no
\* part, the others one part each
CssClass(tag) ==
    CASE tag = "-" -> "diff-deleted"
      [] tag = "+" -> "diff-added"
      [] OTHER -> ""

Parts(kept) == [n \in DOMAIN kept |-> <<CssClass(kept[n][1]), html_escape(kept[n][2])>>]

html_parts(diff_result) ==
    Parts(SelectSeq(diff_result, LAMBDA line : ~IsSpace(line[2])))

\* the error of differ.compare is not caught
HtmlOf(diff_result) ==
    IF diff_result = RecursionError THEN RecursionError
    ELSE html_parts(diff_result)

\* compare is called from the frame of generate_unified_html_diff
generate_unified_html_diff(old_text, new_text, depth) ==
    HtmlOf(differ_compare(old_text, new_text,
               Append(get_matching_blocks(old_text, new_text, 0, Len(old_text),
                                          0, Len(new_text)),
                      <<Len(old_text), Len(new_text), 0>>),
               1, 0, 0, depth + 1))

(* LawComparator.compare_articles *)

\* d.get(k, {}).get('title', '') for a dict d of chapters or sections
TitleOf(d, k) == IF k \in Keys(d) THEN Get(d, k).title ELSE <<>>

chapter_info(law, article_info) ==
    [chapter_num |-> article_info.chapter_num,
     chapter_title |-> TitleOf(law.chapters, article_info.chapter_num),
     section_num |-> article_info.section_num,
     section_title |-> TitleOf(law.sections, article_info.section_num)]

\* list.sort(key = ...) is stable: insertion of x behind the elements whose
\* key is not greater; the elements are pairs <<key, value>>
RECURSIVE InsertPair(_, _)
InsertPair(s, x) ==
    IF s = <<>> THEN <<x>>
    ELSE IF Head(s)[1] <= x[1] THEN <<Head(s)>> \o InsertPair(Tail(s), x)
    ELSE <<x>> \o s

RECURSIVE SortPairs(_)
SortPairs(s) ==
    IF s = <<>> THEN <<>>
    ELSE InsertPair(SortPairs(SubSeq(s, 1, Len(s) - 1)), s[Len(s)])

\* list.sort(key=lambda x: x['old_number'])
Values(ps) == [i \in DOMAIN ps |-> ps[i][2]]

SortByOldNumber(s) ==
    Values(SortPairs([i \in DOMAIN s |-> <<s[i].old_number, s[i]>>]))

\* list.sort(key=lambda x: x['article_number'])
SortByArticleNumber(s) ==
    Values(SortPairs([i \in DOMAIN s |-> <<s[i].article_number, s[i]>>]))

Result0 ==
    [identical |-> <<>>, modified |-> <<>>, new |-> <<>>, deleted |-> <<>>,
     mapping |-> <<>>, manual_count |-> 0, auto_count |-> 0]

\* comparison_result['mapping'][k] = v
SetItem(d, k, v) == [x \in (DOMAIN d) \cup {k} |-> IF x = k THEN v ELSE d[x]]

\* the test that a matched pair is identical, with > for >=
IsIdentical_Above(similarity) == FracGt(similarity, Frac(49, 50))

\* if similarity >= 0.98
IsIdentical(similarity) == FracGeq(similarity, Frac(49, 50))

\* CountType that counts every entry that is not manual as automatic
CountType_NoneAsAuto(r, match_type) ==
    [r EXCEPT !.manual_count = IF match_type = "manual" THEN @ + 1 ELSE @,
              !.auto_count = IF match_type # "manual" THEN @ + 1 ELSE @]

\* the counting of the match types
CountType(r, match_type) ==
    [r EXCEPT !.manual_count = IF match_type = "manual" THEN @ + 1 ELSE @,
              !.auto_count = IF match_type = "auto" THEN @ + 1 ELSE @]

\* the entries of the lists deleted, identical and modified
DeletedEntry(la1, article1_num) ==
    [article_number |-> article1_num,
     content |-> Get(la1.articles, article1_num).content,
     chapter_info |-> chapter_info(la1, Get(la1.articles, article1_num))]

IdenticalEntry(match_data, content1) ==
    [old_number |-> match_data[1],
     new_number |-> match_data[2],
     content |-> content1,
     similarity |-> match_data[3],
     match_type |-> match_data[4]]

ModifiedEntry(match_data, la1, la2, content1, content2, depth) ==
    [old_number |-> match_data[1],
     new_number |-> match_data[2],
     old_content |-> content1,
     new_content |-> content2,
     similarity |-> match_data[3],
     match_type |-> match_data[4],
     old_chapter_info |-> chapter_info(la1, Get(la1.articles, match_data[1])),
     new_chapter_info |-> chapter_info(la2, Get(la2.articles, match_data[2])),
     unified_diff_html |-> generate_unified_html_diff(content1, content2, depth + 1)]

\* the branches of the loop body
PlaceDeleted(r, match_data, la1) ==
    [r EXCEPT !.deleted = Append(@, DeletedEntry(la1, match_data[1]))]

PlaceMatched(r, match_data, la1, la2, depth) ==
    IF IsIdentical(match_data[3])
    THEN [r EXCEPT !.mapping = SetItem(@, match_data[1], match_data[2]),
                   !.identical = Append(@,
                       IdenticalEntry(match_data,
                                      Get(la1.articles, match_data[1]).content))]
    ELSE [r EXCEPT !.mapping = SetItem(@, match_data[1], match_data[2]),
                   !.modified = Append(@,
                       ModifiedEntry(match_data, la1, la2,
                                     Get(la1.articles, match_data[1]).content,
                                     Get(la2.articles, match_data[2]).content,
                                     depth))]

\* one pass of the loop over matching_result['matches']
ClassifyStep(r, match_data, la1, la2, depth) ==
    IF match_data[2] = -1
    THEN PlaceDeleted(CountType(r, match_data[4]), match_data, la1)
    ELSE PlaceMatched(CountType(r, match_data[4]), match_data, la1, la2, depth)

RECURSIVE ClassifyLoop(_, _, _, _, _, _)
ClassifyLoop(r, matches, i, la1, la2, depth) ==
    IF i > Len(matches) THEN r
    ELSE ClassifyLoop(ClassifyStep(r, matches[i], la1, la2, depth), matches, i + 1,
                      la1, la2, depth)

\* the loop over matching_result['new']
NewEntries(new, la2) ==
    [i \in 1 .. Len(new) |->
        [article_number |-> new[i],
         content |-> Get(la2.articles, new[i]).content,
         chapter_info |-> chapter_info(la2, Get(la2.articles, new[i]))]]

\* the sorted lists and the statistics
ComparisonResult(r, new, la1, la2) ==
    [identical |-> SortByOldNumber(r.identical),
     modified |-> SortByOldNumber(r.modified),
     new |-> SortByArticleNumber(new),
     deleted |-> SortByArticleNumber(r.deleted),
     mapping |-> r.mapping,
     statistics |->
         [total_articles_v1 |-> Len(la1.articles),
          total_articles_v2 |-> Len(la2.articles),
          identical_count |-> Len(r.identical),
          modified_count |-> Len(r.modified),
          new_count |-> Len(new),
          deleted_count |-> Len(r.deleted),
          manual_matches_count |-> r.manual_count,
          auto_matches_count |-> r.auto_count]]

\* the error of generate_unified_html_diff ends compare_articles
Compared(r, new, la1, la2) ==
    IF \E k \in DOMAIN r.modified : r.modified[k].unified_diff_html = RecursionError
    THEN RecursionError
    ELSE ComparisonResult(r, new, la1, la2)

\* depth is the number of frames in use when compare_articles is called;
\* generate_unified_html_diff is called from its frame
compare_articles(matching_result, la1, la2, depth) ==
    Compared(ClassifyLoop(Result0, matching_result.matches, 1, la1, la2, depth),
             NewEntries(matching_result.new, la2), la1, la2)

\* main calls compare_articles: the frames of the script and of main are in use
MainFrames == 2

(* LawParser: texts, lines and regular expressions.  A text is a sequence  *)
(* of characters in which "nl" is the line feed.                           *)

\* str.split('\n')
split(text) ==
    LET cuts == <<0>> \o sorted({i \in DOMAIN text : text[i] = "nl"}) \o <<Len(text) + 1>>
    IN  [k \in 1 .. Len(cuts) - 1 |-> SubSeq(text, cuts[k] + 1, cuts[k + 1] - 1)]

\* '\n'.join(lines)
RECURSIVE join(_)
join(lines) ==
    IF lines = <<>> THEN <<>>
    ELSE IF Len(lines) = 1 THEN lines[1]
    ELSE lines[1] \o <<"nl">> \o join(Tail(lines))

\* str.strip()
StripBounds(text, kept) ==
    IF kept = {} THEN <<>> ELSE SubSeq(text, Min(kept), Max(kept))

strip(text) == StripBounds(text, {i \in DOMAIN text : ~IsSpace(text[i])})

\* str.endswith and str.startswith of a tuple of one-character strings
endswith(text, chars) == text # <<>> /\ text[Len(text)] \in chars
startswith(text, chars) == text # <<>> /\ text[1] \in chars

\* the character classes of the patterns
ChapterNumerals == {"yi", "er", "san", "si", "wu", "liu", "qi", "ba", "jiu", "shi"}
ArticleNumerals == ChapterNumerals \cup {"bai", "ling"}
ItemNumerals == ArticleNumerals \cup {"qian", "wan"}
Digits == {"0", "1", "2", "3", "4", "5", "6", "7", "8", "9"}

\* the number of characters of text from position p on that are in class
SpanLen(text, p, class) ==
    CHOOSE n \in 0 .. Len(text) + 1 - p :
        /\ \A t \in 0 .. n - 1 : text[p + t] \in class
        /\ p + n > Len(text) \/ text[p + n] \notin class

\* the last position of the line of text that holds position p
LineEnd(text, p) == p + SpanLen(text, p, Range(text) \ {"nl"}) - 1

(* LawParser.convert_chinese_number                                        *)

\* LawParser._build_chinese_number_dict
chinese_to_num(char) ==
    CASE char = "ling" -> 0
      [] char = "yi" -> 1
      [] char = "er" -> 2
      [] char = "san" -> 3
      [] char = "si" -> 4
      [] char = "wu" -> 5
      [] char = "liu" -> 6
      [] char = "qi" -> 7
      [] char = "ba" -> 8
      [] char = "jiu" -> 9
      [] char = "shi" -> 10
      [] char = "bai" -> 100
      [] char = "qian" -> 1000
      [] char = "wan" -> 10000

BaseNumbers == ItemNumerals

\* UnitDigit without the default 1 for a unit that has no pending digit
UnitDigit_NoDefault(char, i, temp_num) == temp_num

\* the digit a unit multiplies: 1 for a leading "shi" and for a unit
\* without a pending digit
UnitDigit(char, i, temp_num) ==
    IF char = "shi" /\ i = 0 THEN 1
    ELSE IF temp_num = 0 THEN 1
    ELSE temp_num

\* one pass of the loop of _parse_complex_chinese_number on the state
\* <<result, temp_num>>; i is Python's index of char
ComplexStep(st, char, i) ==
    IF char \in BaseNumbers /\ chinese_to_num(char) < 10
    THEN <<st[1], chinese_to_num(char)>>
    ELSE IF char \in {"shi", "bai", "qian", "wan"}
    THEN <<st[1] + UnitDigit(char, i, st[2]) * chinese_to_num(char), 0>>
    ELSE st

RECURSIVE ComplexLoop(_, _, _)
ComplexLoop(chinese_num, i, st) ==
    IF i >= Len(chinese_num) THEN st
    ELSE ComplexLoop(chinese_num, i + 1, ComplexStep(st, chinese_num[i + 1], i))

ComplexResult(st) == IF st[1] + st[2] > 0 THEN st[1] + st[2] ELSE 0

\* LawParser._parse_complex_chinese_number
parse_complex_chinese_number(chinese_num) ==
    ComplexResult(ComplexLoop(chinese_num, 0, <<0, 0>>))

convert_chinese_number(chinese_num) ==
    IF chinese_num = <<>> THEN 0
    ELSE IF Len(chinese_num) = 1 /\ chinese_num[1] \in BaseNumbers
    THEN chinese_to_num(chinese_num[1])
    ELSE parse_complex_chinese_number(chinese_num)

(* LawParser.fix_pdf_line_breaks                                           *)

TerminalMarks == {".", "F.", ";", "F;", ":", "F:", "!", "F!", "?", "F?"}

\* re.match(r'^[\(（][一二三四五六七八九十百千万零\d]+[\)）]', line)
IsEnumerator(line) ==
    /\ startswith(line, {"(", "F("})
    /\ SpanLen(line, 2, ItemNumerals \cup Digits) >= 1
    /\ 2 + SpanLen(line, 2, ItemNumerals \cup Digits) <= Len(line)
    /\ line[2 + SpanLen(line, 2, ItemNumerals \cup Digits)] \in {")", "F)"}

\* re.search(r'[chars]$', text): $ is the end of the text or the position of
\* a line feed that ends the text
SearchAtEnd(text, chars) ==
    \/ endswith(text, chars)
    \/ /\ Len(text) >= 2
       /\ text[Len(text)] = "nl"
       /\ text[Len(text) - 1] \in chars

\* should_merge_lines with the comma rule ahead of the rules on the next line
should_merge_lines_CommaFirst(current_line, next_line) ==
    IF endswith(current_line, TerminalMarks) THEN FALSE
    ELSE IF endswith(current_line, {",", "F,", "dun"}) THEN TRUE
    ELSE IF startswith(next_line, {"(", "F(", "di", "tiao", "zhang", "jie"}) THEN FALSE
    ELSE TRUE

\* LawParser._should_merge_lines
should_merge_lines(current_line, next_line) ==
    IF endswith(current_line, TerminalMarks) THEN FALSE
    ELSE IF startswith(next_line, {"(", "F(", "di", "tiao", "zhang", "jie"}) THEN FALSE
    ELSE IF IsEnumerator(next_line) THEN FALSE
    ELSE IF endswith(current_line, {",", "F,", "dun"}) THEN TRUE
    ELSE IF ~SearchAtEnd(current_line, {"F.", "F,", "F;", "F:", "F!", "F?", "dun",
                                        ".", ";", ":", "!", "?"}) THEN TRUE
    ELSE FALSE

\* an inner loop that stops behind its first merge
MergeRun_Once(lines, i, current_line) ==
    IF /\ i + 1 < Len(lines)
       /\ strip(lines[i + 2]) # <<>>
       /\ should_merge_lines(current_line, strip(lines[i + 2]))
    THEN <<i + 1, current_line \o strip(lines[i + 2])>>
    ELSE <<i, current_line>>

\* the inner loop: <<i, current_line>> after the merges of the lines that
\* follow lines[i]
RECURSIVE MergeRun(_, _, _)
MergeNext(lines, i, current_line, next_line) ==
    IF next_line = <<>> THEN <<i, current_line>>
    ELSE IF should_merge_lines(current_line, next_line)
    THEN MergeRun(lines, i + 1, current_line \o next_line)
    ELSE <<i, current_line>>

MergeRun(lines, i, current_line) ==
    IF i + 1 < Len(lines) THEN MergeNext(lines, i, current_line, strip(lines[i + 2]))
    ELSE <<i, current_line>>

\* the outer loop
RECURSIVE FixLoop(_, _, _)
FixAppend(lines, merged, fixed_lines) ==
    FixLoop(lines, merged[1] + 1, Append(fixed_lines, merged[2]))

FixLine(lines, i, current_line, fixed_lines) ==
    IF current_line = <<>> THEN FixLoop(lines, i + 1, fixed_lines)
    ELSE FixAppend(lines, MergeRun(lines, i, current_line), fixed_lines)

FixLoop(lines, i, fixed_lines) ==
    IF i >= Len(lines) THEN fixed_lines
    ELSE FixLine(lines, i, strip(lines[i + 1]), fixed_lines)

fix_pdf_line_breaks(text) ==
    IF text = <<>> THEN text
    ELSE join(FixLoop(split(text), 0, <<>>))

(* LawParser.normalize_punctuation                                         *)

punctuation_map(c) ==
    CASE c = "," -> "F,"
      [] c = "." -> "F."
      [] c = ";" -> "F;"
      [] c = ":" -> "F:"
      [] c = "?" -> "F?"
      [] c = "!" -> "F!"
      [] c = "(" -> "F("
      [] c = ")" -> "F)"
      [] c = "[" -> "F["
      [] c = "]" -> "F]"
      [] c = "{" -> "F{"
      [] c = "}" -> "F}"
      [] c = "<" -> "F<"
      [] c = ">" -> "F>"
      [] c = "fr<" -> "F<"
      [] c = "fr>" -> "F>"
      [] OTHER -> c

\* concatenation of a sequence of texts
RECURSIVE Concat(_)
Concat(texts) == IF texts = <<>> THEN <<>> ELSE texts[1] \o Concat(Tail(texts))

\* re.sub(r'(\d+)。(\s)', r'\1. \2', text)
RestoreListMarks(text) ==
    Concat([i \in DOMAIN text |->
               IF /\ text[i] = "F."
                  /\ i > 1 /\ text[i - 1] \in Digits
                  /\ i < Len(text) /\ IsSpace(text[i + 1])
               THEN <<".", " ">>
               ELSE <<text[i]>>])

\* LawParser._clean_spaces
clean_spaces(text) ==
    IF text = <<>> THEN text
    ELSE strip(SelectSeq(text, LAMBDA c : ~IsSpace(c)))

normalize_punctuation(text) ==
    IF text = <<>> THEN text
    ELSE clean_spaces(RestoreListMarks([i \in DOMAIN text |-> punctuation_map(text[i])]))

(* LawParser.clean_article_content                                         *)

\* one pass of the loop over the lines of the normalized content
ProcessLine(processed_lines, line) ==
    IF line = <<>> THEN processed_lines
    ELSE IF IsEnumerator(line) THEN Append(processed_lines, line)
    ELSE IF /\ processed_lines # <<>>
            /\ ~endswith(processed_lines[Len(processed_lines)], TerminalMarks)
            /\ ~IsEnumerator(processed_lines[Len(processed_lines)])
    THEN [processed_lines EXCEPT ![Len(processed_lines)] = @ \o line]
    ELSE Append(processed_lines, line)

RECURSIVE ProcessLoop(_, _, _)
ProcessLoop(lines, n, processed_lines) ==
    IF n > Len(lines) THEN processed_lines
    ELSE ProcessLoop(lines, n + 1, ProcessLine(processed_lines, strip(lines[n])))

clean_article_content(content) ==
    IF content = <<>> THEN content
    ELSE join(ProcessLoop(split(normalize_punctuation(fix_pdf_line_breaks(content))),
                          1, <<>>))

(* LawParser.clean_text                                                    *)

StripAll(lines) == [i \in DOMAIN lines |-> strip(lines[i])]

clean_text(text) ==
    join(SelectSeq(StripAll(split(text)), LAMBDA line : line # <<>>))

(* LawParser.extract_pure_article_content                                  *)

\* the length of the match of r'^第[一二三四五六七八九十百零]+条[　\s]*' at the
\* start of article_text, 0 when there is none
NumberPrefixLen(article_text) ==
    IF /\ startswith(article_text, {"di"})
       /\ SpanLen(article_text, 2, ArticleNumerals) >= 1
       /\ 2 + SpanLen(article_text, 2, ArticleNumerals) <= Len(article_text)
       /\ article_text[2 + SpanLen(article_text, 2, ArticleNumerals)] = "tiao"
    THEN 2 + SpanLen(article_text, 2, ArticleNumerals)
         + SpanLen(article_text, 3 + SpanLen(article_text, 2, ArticleNumerals),
                   {" ", "isp", "nl", "tab"})
    ELSE 0

extract_pure_article_content(article_text) ==
    strip(SubSeq(article_text, NumberPrefixLen(article_text) + 1, Len(article_text)))

(* The patterns chapter_pattern, section_pattern and article_pattern:      *)
(* r'^第[numerals]+marker[　\s]*(.+)' with re.MULTILINE.  A match is the    *)
(* record [start, numerals, title, text, end] of its first position, its   *)
(* groups, its text and its last position; start = 0 stands for no match.  *)

Whitespace == {" ", "isp", "nl", "tab"}

NoMatch == [start |-> 0, numerals |-> <<>>, title |-> <<>>, text |-> <<>>, end |-> 0]

\* the length of the match of 第[numerals]+marker at position p, 0 for none
HeadLen(text, p, numerals, marker) ==
    IF /\ p <= Len(text)
       /\ text[p] = "di"
       /\ SpanLen(text, p + 1, numerals) >= 1
       /\ p + 1 + SpanLen(text, p + 1, numerals) <= Len(text)
       /\ text[p + 1 + SpanLen(text, p + 1, numerals)] = marker
    THEN 2 + SpanLen(text, p + 1, numerals)
    ELSE 0

\* the position at which (.+) starts when [　\s]* starts at q: behind the
\* longest run of whitespace, line feeds included; when that run reaches the
\* end of the text, the pattern backtracks to the last whitespace character
\* that is no line feed; 0 when (.+) finds no character
TitleStart(text, q) ==
    IF q + SpanLen(text, q, Whitespace) <= Len(text)
    THEN q + SpanLen(text, q, Whitespace)
    ELSE IF {t \in q .. Len(text) : text[t] # "nl"} = {} THEN 0
    ELSE Max({t \in q .. Len(text) : text[t] # "nl"})

MatchFrom(text, p, head, title_start) ==
    IF title_start = 0 THEN NoMatch
    ELSE [start |-> p,
          numerals |-> SubSeq(text, p + 1, p + head - 2),
          title |-> SubSeq(text, title_start, LineEnd(text, title_start)),
          text |-> SubSeq(text, p, LineEnd(text, title_start)),
          end |-> LineEnd(text, title_start)]

MatchHead(text, p, head) ==
    IF head = 0 THEN NoMatch
    ELSE MatchFrom(text, p, head, TitleStart(text, p + head))

\* pattern.match(text, p - 1)
PatternMatch(text, p, numerals, marker) ==
    MatchHead(text, p, HeadLen(text, p, numerals, marker))

\* pattern.finditer(content): the matches from position from on, each search
\* starting behind the last match
RECURSIVE finditer(_, _, _, _)
FromFirst(content, starts, numerals, marker) ==
    IF starts = {} THEN <<>>
    ELSE <<PatternMatch(content, Min(starts), numerals, marker)>>
         \o finditer(content,
                     PatternMatch(content, Min(starts), numerals, marker).end + 1,
                     numerals, marker)

finditer(content, from, numerals, marker) ==
    FromFirst(content,
              {p \in from .. Len(content) :
                  /\ p = 1 \/ content[p - 1] = "nl"
                  /\ PatternMatch(content, p, numerals, marker).start # 0},
              numerals, marker)

\* a dict that keeps the value of a key it already holds
PutItem_FirstWins(d, rec) == IF rec.num \in Keys(d) THEN d ELSE Append(d, rec)

\* d[rec.num] = rec on a dict: a new key goes to the end, an old key keeps
\* its place
PutItem(d, rec) ==
    IF rec.num \in Keys(d)
    THEN [i \in DOMAIN d |-> IF d[i].num = rec.num THEN rec ELSE d[i]]
    ELSE Append(d, rec)

(* LawParser.parse_chapters and LawParser.parse_sections *)

ChapterOf(match) ==
    [num |-> convert_chinese_number(match.numerals),
     title |-> clean_spaces(strip(match.title)),
     full_text |-> strip(match.text),
     sections |-> <<>>]

SectionOf(match) ==
    [num |-> convert_chinese_number(match.numerals),
     title |-> strip(match.title),
     full_text |-> strip(match.text)]

RECURSIVE ChaptersLoop(_, _, _)
ChaptersLoop(matches, n, chapters) ==
    IF n > Len(matches) THEN chapters
    ELSE ChaptersLoop(matches, n + 1, PutItem(chapters, ChapterOf(matches[n])))

parse_chapters(content) ==
    ChaptersLoop(finditer(content, 1, ChapterNumerals, "zhang"), 1, <<>>)

RECURSIVE SectionsLoop(_, _, _)
SectionsLoop(matches, n, sections) ==
    IF n > Len(matches) THEN sections
    ELSE SectionsLoop(matches, n + 1, PutItem(sections, SectionOf(matches[n])))

parse_sections(content) ==
    SectionsLoop(finditer(content, 1, ChapterNumerals, "jie"), 1, <<>>)

(* LawParser.parse_articles.  The state of its loop is the record of its   *)
(* local variables.                                                        *)

ParseState0 ==
    [articles |-> <<>>,
     current_article_num |-> None,
     current_article_content |-> <<>>,
     current_chapter_num |-> None,
     current_chapter_title |-> None,
     current_section_num |-> None,
     current_section_title |-> None]

\* LawParser._is_section_or_chapter_title
is_section_or_chapter_title(line) ==
    \/ HeadLen(line, 1, ChapterNumerals, "zhang") # 0
    \/ HeadLen(line, 1, ChapterNumerals, "jie") # 0

\* the article that the loop stores on an article header
FlushedArticle(st, full_content) ==
    [num |-> st.current_article_num,
     content |-> clean_article_content(extract_pure_article_content(full_content)),
     full_text |-> full_content,
     chapter_num |-> st.current_chapter_num,
     section_num |-> st.current_section_num,
     line_count |-> Len(st.current_article_content)]

\* the article that is stored behind the loop
LastArticle(st, full_content) ==
    [num |-> st.current_article_num,
     content |-> clean_article_content(extract_pure_article_content(full_content)),
     full_text |-> full_content,
     chapter_num |-> st.current_chapter_num,
     chapter_title |-> st.current_chapter_title,
     section_num |-> st.current_section_num,
     section_title |-> st.current_section_title,
     line_count |-> Len(st.current_article_content)]

OnChapter(st, match) ==
    [st EXCEPT !.current_chapter_num = convert_chinese_number(match.numerals),
               !.current_chapter_title = strip(match.title),
               !.current_section_num = None,
               !.current_section_title = None]

OnSection(st, match) ==
    [st EXCEPT !.current_section_num = convert_chinese_number(match.numerals),
               !.current_section_title = strip(match.title)]

OnArticle(st, match, line_stripped) ==
    [st EXCEPT !.articles =
                   IF st.current_article_num # None
                   THEN PutItem(@, FlushedArticle(st,
                                     strip(join(st.current_article_content))))
                   ELSE @,
               !.current_article_num = convert_chinese_number(match.numerals),
               !.current_article_content = <<line_stripped>>]

OnOther(st, line_stripped) ==
    IF st.current_article_num # None /\ line_stripped # <<>>
    THEN IF is_section_or_chapter_title(line_stripped) THEN st
         ELSE [st EXCEPT !.current_article_content = Append(@, line_stripped)]
    ELSE st

\* one pass of the loop over content_lines
ArticlesStep(st, line) ==
    IF PatternMatch(line, 1, ChapterNumerals, "zhang").start # 0
    THEN OnChapter(st, PatternMatch(line, 1, ChapterNumerals, "zhang"))
    ELSE IF PatternMatch(line, 1, ChapterNumerals, "jie").start # 0
    THEN OnSection(st, PatternMatch(line, 1, ChapterNumerals, "jie"))
    ELSE IF PatternMatch(line, 1, ArticleNumerals, "tiao").start # 0
    THEN OnArticle(st, PatternMatch(line, 1, ArticleNumerals, "tiao"), strip(line))
    ELSE OnOther(st, strip(line))

RECURSIVE ArticlesLoop(_, _, _)
ArticlesLoop(content_lines, n, st) ==
    IF n > Len(content_lines) THEN st
    ELSE ArticlesLoop(content_lines, n + 1, ArticlesStep(st, content_lines[n]))

\* a scan that returns the articles of the loop and drops the open one
FinalFlush_Dropped(st) == st.articles

FinalFlush(st) ==
    IF st.current_article_num # None
    THEN PutItem(st.articles, LastArticle(st, strip(join(st.current_article_content))))
    ELSE st.articles

parse_articles(content) ==
    FinalFlush(ArticlesLoop(split(content), 1, ParseState0))

(* LawParser.parse_file, on the text of the file *)

LawStructure(content, chapters, sections, articles) ==
    [chapters |-> chapters,
     sections |-> sections,
     articles |-> articles,
     metadata |-> [total_chapters |-> Len(chapters),
                   total_sections |-> Len(sections),
                   total_articles |-> Len(articles),
                   total_content_length |-> Len(content)]]

ParseContent(content) ==
    LawStructure(content, parse_chapters(content), parse_sections(content),
                 parse_articles(content))

parse_file(text) == ParseContent(clean_text(text))

(* Inputs *)

\* Python's sequence repetition [c] * n
Rep(c, n) == [i \in 1 .. n |-> c]

\* the dicts of at most MaxArticles articles over the numbers nums and the
\* contents contents, in every insertion order
ArticleDicts(nums, contents) ==
    UNION {{d \in [1 .. n -> [num : nums, content : contents,
                             chapter_num : {None}, section_num : {None}]] :
               \A i, j \in 1 .. n : i # j => d[i].num # d[j].num} :
           n \in 0 .. MaxArticles}

Laws(nums, contents) ==
    {[articles |-> d, chapters |-> <<>>, sections |-> <<>>] :
        d \in ArticleDicts(nums, contents)}

\* the lists of at most MaxManual manual matches over the numbers olds, news
ManualLists(olds, news) ==
    UNION {[1 .. n -> [old_number : olds, new_number : news]] : n \in 0 .. MaxManual}

Nums == 1 .. MaxNum

\* the numbers of the manual matches: those of the articles and one that no
\* article has
ManualNums == 1 .. MaxNum + 1

Contents ==
    {<<"a", "b", "c", "d", "e">>,
     <<"a", "b", "c", "d", "x">>,
     <<"a", "b", "c", "d", "e", "f">>,
     <<>>}

Thresholds == {Frac(0, 1), Frac(4, 5)}

LawPairs == Laws(Nums, Contents) \X Laws(Nums, Contents)

\* The cases of the specification: the end-to-end example, and texts whose
\* similarities are exactly 0.79, 0.80, 0.96 and 0.98.
Smoking == <<"jin", "zhi", "xi", "yan", "F.">>
SmokingDrinking == <<"jin", "zhi", "xi", "yan", "he", "yin", "jiu3", "F.">>
Fine100 == <<"fa", "kuan", "yi", "bai", "yuan", "F.">>
Fine200 == <<"fa", "kuan", "er", "bai", "yuan", "F.">>

\* n pairwise different characters
Pre(n) == [i \in 1 .. n |-> ToString(i)]

Text79 == Pre(79) \o Rep("y", 21)
Text80 == Pre(79) \o <<"z">> \o Rep("w", 20)
TextC == Pre(79) \o Rep("z", 21)
Text98a == Pre(49) \o <<"y">>
Text98b == Pre(49) \o <<"z">>
Text96 == Pre(48) \o <<"z", "z">>

\* two texts of 200 characters that differ in the places of "x" and "y":
\* the two marks are popular in them, "x" and "y" are not
LongXY == <<"x">> \o Rep("F,", 100) \o <<"y">> \o Rep("F.", 98)
LongYX == <<"y">> \o Rep("F,", 100) \o <<"x">> \o Rep("F.", 98)

CasePairs ==
    (Laws(1 .. 2, {Smoking, Fine100}) \X Laws({1, 3}, {SmokingDrinking, Fine200}))
    \cup (Laws(Nums, {Text79, Text80}) \X Laws(Nums, {TextC}))
    \cup (Laws(Nums, {Text98a}) \X Laws(Nums, {Text98b, Text96}))
    \cup (Laws({1}, {LongXY}) \X Laws({1}, {LongYX}))

NoLaw == [articles |-> <<>>, chapters |-> <<>>, sections |-> <<>>]

(* The run of the program: LawComparator(threshold), an optional           *)
(* load_manual_matches, one compare_articles.                              *)

InitWith(thresholds) ==
    /\ pc = "new"
    /\ similarity_threshold \in thresholds
    /\ manual_matches = <<>>
    /\ file1 = <<>>
    /\ file2 = <<>>
    /\ law1 = NoLaw
    /\ law2 = NoLaw
    /\ matching = intelligent_article_matching(<<>>, Zero, <<>>, <<>>)
    /\ result = compare_articles(matching, NoLaw, NoLaw, MainFrames)
    /\ args = <<>>
    /\ ret = <<>>

Init == InitWith(Thresholds)

LoadManualMatches ==
    /\ pc = "new"
    /\ \E data \in ManualLists(ManualNums, ManualNums) : manual_matches' = data
    /\ pc' = "loaded"
    /\ UNCHANGED <<similarity_threshold, file1, file2, law1, law2, matching, result, args, ret>>

CompareArticlesOn(pairs) ==
    /\ pc \in {"new", "loaded"}
    /\ \E p \in pairs :
          /\ law1' = p[1]
          /\ law2' = p[2]
          /\ matching' = intelligent_article_matching(manual_matches,
                             similarity_threshold, p[1].articles, p[2].articles)
          /\ result' = compare_articles(matching', p[1], p[2], MainFrames)
    /\ pc' = "done"
    /\ UNCHANGED <<similarity_threshold, manual_matches, file1, file2, args, ret>>

CompareArticles == CompareArticlesOn(LawPairs)

Next == LoadManualMatches \/ CompareArticles

Spec == Init /\ [][Next]_vars

\* the default threshold 0.8 on the cases
InitCases == InitWith({Frac(4, 5)})

CompareCases == CompareArticlesOn(CasePairs)

NextCases == LoadManualMatches \/ CompareCases

SpecCases == InitCases /\ [][NextCases]_vars

(* The run of main on two files: parse_file on each of them, then          *)
(* compare_articles on the two documents.                                  *)

\* the lines of the files
FileLines ==
    {<<"di", "yi", "zhang">>,
     <<"di", "er", "zhang", " ", "zong", "ze">>,
     <<"di", "yi", "jie">>,
     <<"di", "er", "jie", "isp", "jia">>,
     <<"di", "yi", "tiao", " ", "nei", "rong", "F.">>,
     <<"di", "er", "tiao", "nei", "rong", ",">>,
     <<" ", "bing", ".">>}

\* the texts of at most n lines
Texts(n) == {join(lines) : lines \in UNION {[1 .. k -> FileLines] : k \in 0 .. n}}

\* longer texts: two chapters that each start their sections at one
RestartingSections ==
    join(<<<<"di", "yi", "zhang", " ", "zong", "ze">>,
           <<"di", "yi", "jie", " ", "jia">>,
           <<"di", "yi", "tiao", " ", "nei", "rong", "F.">>,
           <<"di", "er", "tiao", " ", "nei", "rong", "er", "F.">>,
           <<"di", "er", "zhang", " ", "fu", "ze">>,
           <<"di", "yi", "jie", " ", "yi3">>,
           <<"di", "san", "tiao", " ", "nei", "rong", "san", "F.">>>>)

\* an article 1000 behind article 1
ThousandthArticle ==
    join(<<<<"di", "yi", "tiao", " ", "nei", "rong", "F.">>,
           <<"di", "yi", "qian", "tiao", " ", "nei", "rong", "er", "F.">>>>)

\* article 1 opened a second time behind article 2
RepeatedArticle ==
    join(<<<<"di", "yi", "tiao", " ", "nei", "rong", "F.">>,
           <<"di", "er", "tiao", " ", "nei", "rong", "er", "F.">>,
           <<"di", "yi", "tiao", " ", "nei", "rong", "san", "F.">>>>)

\* an article of a lead-in line and two sub-items
SubItems ==
    join(<<<<"di", "yi", "tiao", " ", "nei", "rong", "F:">>,
           <<"F(", "yi", "F)", "jia", "F;">>,
           <<"F(", "er", "F)", "yi3", "F.">>>>)

CaseTexts == {RestartingSections, ThousandthArticle, RepeatedArticle, SubItems}

InitParse == InitWith({Frac(4, 5)})

ParseFile1 ==
    /\ pc = "new"
    /\ \E text \in Texts(MaxLines) \cup CaseTexts :
          /\ file1' = text
          /\ law1' = parse_file(text)
    /\ pc' = "parsed1"
    /\ UNCHANGED <<similarity_threshold, manual_matches, file2, law2, matching, result, args, ret>>

ParseFile2 ==
    /\ pc = "parsed1"
    /\ \E text \in Texts(MaxLines - 1) :
          /\ file2' = text
          /\ law2' = parse_file(text)
    /\ pc' = "parsed"
    /\ UNCHANGED <<similarity_threshold, manual_matches, file1, law1, matching, result, args, ret>>

CompareParsed ==
    /\ pc = "parsed"
    /\ matching' = intelligent_article_matching(manual_matches, similarity_threshold,
                                                law1.articles, law2.articles)
    /\ result' = compare_articles(matching', law1, law2, MainFrames)
    /\ pc' = "done"
    /\ UNCHANGED <<similarity_threshold, manual_matches, file1, file2, law1, law2, args, ret>>

NextParse == ParseFile1 \/ ParseFile2 \/ CompareParsed

SpecParse == InitParse /\ [][NextParse]_vars

(* Direct calls of single methods: the state holds the arguments in args   *)
(* and collects the returned values in ret.                                *)

InitCall(inputs) ==
    /\ pc = "call"
    /\ similarity_threshold = Frac(4, 5)
    /\ manual_matches = <<>>
    /\ file1 = <<>>
    /\ file2 = <<>>
    /\ law1 = NoLaw
    /\ law2 = NoLaw
    /\ matching = intelligent_article_matching(<<>>, Zero, <<>>, <<>>)
    /\ result = compare_articles(matching, NoLaw, NoLaw, MainFrames)
    /\ args \in inputs
    /\ ret = <<>>

\* what a direct call leaves alone
CallFrame ==
    UNCHANGED <<similarity_threshold, manual_matches, file1, file2, law1, law2,
                matching, result, args>>

\* the standard writing of n in 1 .. 9999: the digits with their units, one
\* "ling" for a run of skipped positions between two written ones; short
\* writes 10 .. 19 without the leading "yi"
DigitName(k) ==
    <<"yi", "er", "san", "si", "wu", "liu", "qi", "ba", "jiu">>[k]

Thousands(n) ==
    IF n \div 1000 > 0 THEN <<DigitName(n \div 1000), "qian">> ELSE <<>>

Hundreds(n) ==
    IF (n \div 100) % 10 > 0 THEN <<DigitName((n \div 100) % 10), "bai">>
    ELSE IF n \div 1000 > 0 /\ n % 100 > 0 THEN <<"ling">>
    ELSE <<>>

Tens(n, short) ==
    IF (n \div 10) % 10 > 0
    THEN IF n < 20 /\ short THEN <<"shi">>
         ELSE <<DigitName((n \div 10) % 10), "shi">>
    ELSE IF (n \div 100) % 10 > 0 /\ n % 10 > 0 THEN <<"ling">>
    ELSE <<>>

Units(n) == IF n % 10 > 0 THEN <<DigitName(n % 10)>> ELSE <<>>

Numeral(n, short) == Thousands(n) \o Hundreds(n) \o Tens(n, short) \o Units(n)

\* the calls convert_chinese_number(chinese_num) on the writings of n
NumeralCalls ==
    {[n |-> n, chinese_num |-> Numeral(n, short)] :
        n \in 1 .. 9999, short \in BOOLEAN}

InitConvert == InitCall(NumeralCalls)

ConvertChineseNumber ==
    /\ pc = "call"
    /\ ret' = Append(ret, convert_chinese_number(args.chinese_num))
    /\ pc' = "returned"
    /\ CallFrame

\* a second call, on the token with a "ling" put in behind its first at
\* characters
WithZero(chinese_num, at) ==
    SubSeq(chinese_num, 1, at) \o <<"ling">> \o SubSeq(chinese_num, at + 1, Len(chinese_num))

ConvertWithZero ==
    /\ pc = "returned"
    /\ \E at \in 0 .. Len(args.chinese_num) :
          ret' = Append(ret, convert_chinese_number(WithZero(args.chinese_num, at)))
    /\ pc' = "zero"
    /\ CallFrame

NextConvert == ConvertChineseNumber \/ ConvertWithZero

SpecConvert == InitConvert /\ [][NextConvert]_vars

\* the texts of at most n characters of chars
TextsOver(chars, n) == UNION {[1 .. k -> chars] : k \in 0 .. n}

\* the calls normalize_punctuation(text), and normalize_punctuation of the
\* value that it returned
NormalizeCalls ==
    {[text |-> t] : t \in TextsOver({"1", ".", ",", "F.", " ", "jia"}, MaxText)}

InitNormalize == InitCall(NormalizeCalls)

NormalizePunctuation ==
    /\ pc = "call"
    /\ ret' = Append(ret, normalize_punctuation(args.text))
    /\ pc' = "returned"
    /\ CallFrame

NormalizeAgain ==
    /\ pc = "returned"
    /\ ret' = Append(ret, normalize_punctuation(ret[1]))
    /\ pc' = "again"
    /\ CallFrame

NextNormalize == NormalizePunctuation \/ NormalizeAgain

SpecNormalize == InitNormalize /\ [][NextNormalize]_vars

\* the lines of the texts given to fix_pdf_line_breaks
DriversShall == <<"ji", "dong", "che", "jia", "shi", "ren", "ying", "dang">>
ObeySignals == <<"zun", "shou", "jiao", "tong", "xin", "hao", "F.">>

BrokenLines ==
    {DriversShall,
     ObeySignals,
     <<"jia", "F,">>,
     <<"F(", "yi", "F)", "yi3", "F;">>,
     <<"(", "1", ")", "bing">>,
     <<"di", "er", "tiao", " ", "ding">>,
     <<"zhang", "cheng", ":">>,
     <<" ", "wu", "dun", " ">>,
     <<>>}

\* the calls fix_pdf_line_breaks(text) on the texts of at most MaxLines lines
FixCalls ==
    {[text |-> join(lines)] :
        lines \in UNION {[1 .. k -> BrokenLines] : k \in 1 .. MaxLines}}

InitFix == InitCall(FixCalls)

FixPdfLineBreaks ==
    /\ pc = "call"
    /\ ret' = Append(ret, fix_pdf_line_breaks(args.text))
    /\ pc' = "returned"
    /\ CallFrame

\* fix_pdf_line_breaks of the text that it returned
FixAgain ==
    /\ pc = "returned"
    /\ ret' = Append(ret, fix_pdf_line_breaks(ret[1]))
    /\ pc' = "again"
    /\ CallFrame

NextFix == FixPdfLineBreaks \/ FixAgain

SpecFix == InitFix /\ [][NextFix]_vars

\* the calls calculate_similarity(text1, text2), and the call with the two
\* texts exchanged
SimilarityCalls ==
    {[text1 |-> t1, text2 |-> t2] :
        t1 \in TextsOver({"a", "b", "c"}, MaxSimText),
        t2 \in TextsOver({"a", "b", "c"}, MaxSimText)}
    \cup {[text1 |-> LongXY, text2 |-> LongYX], [text1 |-> LongXY, text2 |-> LongXY]}

InitSimilarity == InitCall(SimilarityCalls)

CalculateSimilarity ==
    /\ pc = "call"
    /\ ret' = Append(ret, calculate_similarity(args.text1, args.text2))
    /\ pc' = "returned"
    /\ CallFrame

CalculateSwapped ==
    /\ pc = "returned"
    /\ ret' = Append(ret, calculate_similarity(args.text2, args.text1))
    /\ pc' = "swapped"
    /\ CallFrame

NextSimilarity == CalculateSimilarity \/ CalculateSwapped

SpecSimilarity == InitSimilarity /\ [][NextSimilarity]_vars

(* Properties of the comparator *)

Done == pc = "done"

IsMatched(e) == e[4] \in {"manual", "auto"}
MatchedIdx == {i \in DOMAIN matching.matches : IsMatched(matching.matches[i])}
AutoIdx == {i \in DOMAIN matching.matches : matching.matches[i][4] # "manual"}

AddedNums == [i \in DOMAIN result.new |-> result.new[i].article_number]
DeletedNums == [i \in DOMAIN result.deleted |-> result.deleted[i].article_number]

\* the new numbers consumed before the entry i of matches was recorded, the
\* new articles open to it, and its similarity to the new article n
ConsumedBefore(i) ==
    {matching.matches[k][2] : k \in {k \in 1 .. i - 1 : IsMatched(matching.matches[k])}}
Pool(i) == Keys(law2.articles) \ ConsumedBefore(i)
SimTo(i, n) ==
    calculate_similarity(Get(law1.articles, matching.matches[i][1]).content,
                         Get(law2.articles, n).content)

\* a manual pair both of whose articles exist
ValidPair(match) ==
    /\ match.old_number \in Keys(law1.articles)
    /\ match.new_number \in Keys(law2.articles)

\* C1: no old number and no new number occurs in more than one matched entry
\* (manual or auto) of the result, whatever the manual-match list
C1_PartialBijection ==
    Done => \A i, j \in MatchedIdx :
                i # j => /\ matching.matches[i][1] # matching.matches[j][1]
                         /\ matching.matches[i][2] # matching.matches[j][2]

\* C2: a manual pair of two existing articles is reported as a matched entry of
\* type manual, whatever its similarity; its old article is not deleted and its
\* new article is not added
C2_ManualPrecedence ==
    Done => \A k \in DOMAIN manual_matches :
        LET o == manual_matches[k].old_number
            n == manual_matches[k].new_number
            Is(e) == e.old_number = o /\ e.new_number = n /\ e.match_type = "manual"
        IN  ValidPair(manual_matches[k]) =>
               /\ \/ \E x \in DOMAIN result.identical : Is(result.identical[x])
                  \/ \E x \in DOMAIN result.modified : Is(result.modified[x])
               /\ o \notin Range(DeletedNums)
               /\ n \notin Range(AddedNums)

\* a manual pair of similarity at most 0.1 under the threshold 0.8, reported as
\* a modified entry of type manual
C2_Witness ==
    /\ Done
    /\ similarity_threshold = Frac(4, 5)
    /\ \E k \in DOMAIN manual_matches :
          /\ ValidPair(manual_matches[k])
          /\ FracGeq(Frac(1, 10),
                     calculate_similarity(
                         Get(law1.articles, manual_matches[k].old_number).content,
                         Get(law2.articles, manual_matches[k].new_number).content))
          /\ \E x \in DOMAIN result.modified :
                /\ result.modified[x].old_number = manual_matches[k].old_number
                /\ result.modified[x].new_number = manual_matches[k].new_number
                /\ result.modified[x].match_type = "manual"

\* the dict d holds exactly the contents m, in any insertion order
HoldsContents(d, m) ==
    /\ Len(d) = Cardinality(DOMAIN m)
    /\ Keys(d) = DOMAIN m
    /\ \A k \in DOMAIN m : Get(d, k).content = m[k]

\* the input of the end-to-end example
E2EInput ==
    /\ similarity_threshold = Frac(4, 5)
    /\ manual_matches = <<>>
    /\ HoldsContents(law1.articles, (1 :> Smoking) @@ (2 :> Fine100))
    /\ HoldsContents(law2.articles, (1 :> SmokingDrinking) @@ (3 :> Fine200))

\* C3 as stated: on the end-to-end example old 1 is matched to new 1 and
\* modified, old 2 is deleted and new 3 is added
C3_AsStated ==
    (Done /\ E2EInput) =>
        /\ \E x \in DOMAIN result.modified :
              /\ result.modified[x].old_number = 1
              /\ result.modified[x].new_number = 1
              /\ ~FracGeq(result.modified[x].similarity, Frac(49, 50))
        /\ DeletedNums = <<2>>
        /\ AddedNums = <<3>>

\* C3: on the end-to-end example old 1 is deleted (its best similarity, 10/13
\* to new 1, is below 0.8), old 2 is matched to new 3 and modified (similarity
\* 10/12), and new 1 is added
C3_EndToEnd ==
    (Done /\ E2EInput) =>
        /\ FracEq(calculate_similarity(Smoking, SmokingDrinking), Frac(10, 13))
        /\ DeletedNums = <<1>>
        /\ AddedNums = <<1>>
        /\ result.identical = <<>>
        /\ Len(result.modified) = 1
        /\ result.modified[1].old_number = 2
        /\ result.modified[1].new_number = 3
        /\ result.modified[1].match_type = "auto"
        /\ FracEq(result.modified[1].similarity, Frac(10, 12))

C3_Witness == Done /\ E2EInput /\ Len(result.modified) = 1

\* C4: with threshold 0.8 an old article of the automatic phase whose best
\* open candidate has similarity 0.80 or more is matched to a best candidate;
\* when every open candidate is below 0.80 it is recorded as deleted and
\* consumes nothing, so that the candidates stay open to the later old articles
C4_ThresholdBoundary ==
    (Done /\ similarity_threshold = Frac(4, 5)) =>
        /\ matching.used_articles2 = {matching.matches[i][2] : i \in MatchedIdx}
        /\ \A i \in AutoIdx :
              LET e == matching.matches[i]
              IN  IF \E n \in Pool(i) : FracGeq(SimTo(i, n), Frac(4, 5))
                  THEN /\ e[4] = "auto"
                       /\ e[2] \in Pool(i)
                       /\ FracEq(e[3], SimTo(i, e[2]))
                       /\ \A n \in Pool(i) : FracGeq(e[3], SimTo(i, n))
                  ELSE e = <<e[1], -1, Zero, "none">>

\* old i has a best candidate c of similarity exactly 0.79 and is deleted; the
\* later old j is matched to c with similarity exactly 0.80
C4_Witness ==
    /\ Done
    /\ similarity_threshold = Frac(4, 5)
    /\ \E i, j \in AutoIdx : \E c \in Pool(i) :
          /\ i < j
          /\ matching.matches[i][1] < matching.matches[j][1]
          /\ FracEq(SimTo(i, c), Frac(79, 100))
          /\ \A n \in Pool(i) : FracGeq(SimTo(i, c), SimTo(i, n))
          /\ matching.matches[i][4] = "none"
          /\ matching.matches[j] = <<matching.matches[j][1], c, SimTo(j, c), "auto">>
          /\ FracEq(SimTo(j, c), Frac(4, 5))

\* C5: the added list is exactly the new-document numbers that are the new
\* number of no matched entry, each once
C5_AddedExact ==
    Done =>
        /\ Range(AddedNums) =
              Keys(law2.articles) \ {matching.matches[i][2] : i \in MatchedIdx}
        /\ Range(AddedNums) \cap
              ({result.identical[x].new_number : x \in DOMAIN result.identical}
               \cup {result.modified[x].new_number : x \in DOMAIN result.modified}) = {}
        /\ Cardinality(Range(AddedNums)) = Len(AddedNums)
        /\ AddedNums = matching.new

\* a result with an added article next to a matched one
C5_Witness ==
    /\ Done
    /\ AddedNums # <<>>
    /\ \E i \in MatchedIdx : matching.matches[i][4] = "auto"
    /\ Len(law2.articles) = 2

\* C6: an entry of an unmatched old article has new number -1, similarity 0.0
\* and type none; a manual or auto entry never has new number -1; the deleted
\* list holds exactly the old numbers of the entries with new number -1
C6_DeletedEntries ==
    Done =>
        /\ \A i \in DOMAIN matching.matches :
              LET e == matching.matches[i]
              IN  /\ e[4] = "none" => e[2] = -1 /\ e[3] = Zero
                  /\ e[4] \in {"manual", "auto"} => e[2] # -1
                  /\ e[4] \in {"manual", "auto", "none"}
        /\ \A o \in Keys(law1.articles) :
              (\A i \in MatchedIdx : matching.matches[i][1] # o) =>
                  \E i \in DOMAIN matching.matches :
                      matching.matches[i] = <<o, -1, Zero, "none">>
        /\ DeletedNums =
              sorted({matching.matches[i][1] :
                         i \in {k \in DOMAIN matching.matches :
                                   matching.matches[k][2] = -1}})

\* an old article left unmatched although a candidate of positive similarity
\* was open to it, next to a matched one
C6_Witness ==
    /\ Done
    /\ MatchedIdx # {}
    /\ \E i \in AutoIdx :
          /\ matching.matches[i][4] = "none"
          /\ \E n \in Pool(i) : FracGt(SimTo(i, n), Zero)

\* C7: a matched entry, manual or auto, is in exactly one of identical and
\* modified: in identical when its similarity is >= 0.98, in modified (with the
\* diff annotation) otherwise; it is neither deleted nor added
C7_Classification ==
    Done =>
        LET InIdentical(e) ==
                \E x \in DOMAIN result.identical :
                    /\ result.identical[x].old_number = e[1]
                    /\ result.identical[x].new_number = e[2]
                    /\ result.identical[x].similarity = e[3]
                    /\ result.identical[x].match_type = e[4]
            InModified(e) ==
                \E x \in DOMAIN result.modified :
                    /\ result.modified[x].old_number = e[1]
                    /\ result.modified[x].new_number = e[2]
                    /\ result.modified[x].similarity = e[3]
                    /\ result.modified[x].match_type = e[4]
                    /\ result.modified[x].unified_diff_html =
                          generate_unified_html_diff(
                              Get(law1.articles, e[1]).content,
                              Get(law2.articles, e[2]).content,
                              MainFrames + 1)
        IN  /\ \A i \in MatchedIdx :
                  LET e == matching.matches[i]
                  IN  /\ FracGeq(e[3], Frac(49, 50)) => InIdentical(e) /\ ~InModified(e)
                      /\ ~FracGeq(e[3], Frac(49, 50)) => InModified(e) /\ ~InIdentical(e)
                      /\ e[1] \notin Range(DeletedNums)
                      /\ e[2] \notin Range(AddedNums)
            /\ Len(result.identical) + Len(result.modified) = Cardinality(MatchedIdx)

\* an identical entry of similarity exactly 0.98 beside a modified entry
C7_Witness ==
    /\ Done
    /\ \E x \in DOMAIN result.identical :
          FracEq(result.identical[x].similarity, Frac(49, 50))
    /\ \E x \in DOMAIN result.modified :
          /\ FracEq(result.modified[x].similarity, Frac(48, 50))
          /\ result.modified[x].unified_diff_html # <<>>

\* C8: when the new document has no article every old article is deleted and
\* nothing is added or matched; when the old document has no article every new
\* article is added and nothing is deleted or matched
C8_EmptySide ==
    Done =>
        /\ law2.articles = <<>> =>
              /\ DeletedNums = sorted(Keys(law1.articles))
              /\ result.new = <<>>
              /\ result.identical = <<>>
              /\ result.modified = <<>>
              /\ MatchedIdx = {}
        /\ law1.articles = <<>> =>
              /\ AddedNums = sorted(Keys(law2.articles))
              /\ result.deleted = <<>>
              /\ result.identical = <<>>
              /\ result.modified = <<>>
              /\ MatchedIdx = {}

\* two old articles and a manual-match list against a new document without
\* articles
C8_Witness ==
    /\ Done
    /\ law2.articles = <<>>
    /\ Len(law1.articles) = 2
    /\ manual_matches # <<>>
    /\ Len(result.deleted) = 2

\* C9: a manual pair that names a missing article records no entry and
\* consumes neither number: the manual entries are those of the other pairs in
\* their order, an old article of no valid pair gets its one entry in the
\* automatic phase, and a new article of no valid pair is open to the first old
\* article of the automatic phase
C9_MissingManual ==
    Done =>
        LET valid == SelectSeq(manual_matches, ValidPair)
            manual == SelectSeq(matching.matches, LAMBDA e : e[4] = "manual")
            open == Keys(law2.articles) \ {valid[k].new_number : k \in DOMAIN valid}
        IN  /\ Len(manual) = Len(valid)
            /\ \A k \in DOMAIN valid :
                  /\ manual[k][1] = valid[k].old_number
                  /\ manual[k][2] = valid[k].new_number
            /\ matching.manual_matches_count = Len(valid)
            /\ \A o \in Keys(law1.articles) \ {valid[k].old_number : k \in DOMAIN valid} :
                  Cardinality({i \in DOMAIN matching.matches :
                                  matching.matches[i][1] = o}) = 1
            /\ \A i \in AutoIdx :
                  (\A k \in AutoIdx : i <= k) =>
                      /\ Pool(i) = open
                      /\ (\E n \in open : /\ FracGt(SimTo(i, n), Zero)
                                          /\ FracGeq(SimTo(i, n), similarity_threshold))
                             => matching.matches[i][4] = "auto"
            /\ \A n \in open :
                  \/ n \in Range(AddedNums)
                  \/ \E i \in AutoIdx : matching.matches[i][2] = n

\* a pair whose new article is missing, followed by a valid pair: the old
\* article of the skipped pair is matched in the automatic phase
C9_Witness ==
    /\ Done
    /\ \E k, x \in DOMAIN manual_matches :
          /\ k < x
          /\ manual_matches[k].old_number \in Keys(law1.articles)
          /\ manual_matches[k].new_number \notin Keys(law2.articles)
          /\ ValidPair(manual_matches[x])
          /\ manual_matches[x].old_number # manual_matches[k].old_number
          /\ \E i \in AutoIdx :
                /\ matching.matches[i][1] = manual_matches[k].old_number
                /\ matching.matches[i][4] = "auto"

\* the entries of type manual, in the order of their recording
ManualEntries == SelectSeq(matching.matches, LAMBDA e : e[4] = "manual")

\* C17: the manual phase records a pair only when neither of its numbers is
\* consumed: a pair whose old or new number an earlier pair of the list has
\* consumed records no entry, and the entry of the earlier pair is kept
C17_ManualUnconsumed ==
    Done =>
        /\ \A i, j \in DOMAIN ManualEntries :
              i < j => /\ ManualEntries[j][1] # ManualEntries[i][1]
                       /\ ManualEntries[j][2] # ManualEntries[i][2]
        /\ \A k \in DOMAIN manual_matches :
              /\ ValidPair(manual_matches[k])
              /\ \A h \in 1 .. k - 1 : ~ValidPair(manual_matches[h])
              => /\ ManualEntries # <<>>
                 /\ ManualEntries[1][1] = manual_matches[k].old_number
                 /\ ManualEntries[1][2] = manual_matches[k].new_number

\* the maximum similarity of the old article of entry i to the new articles
\* open to it meets the threshold
MeetsThreshold(i) ==
    \E n \in Pool(i) : FracGeq(SimTo(i, n), similarity_threshold)

\* C18: for every threshold, 0 included, an old article that the manual phase
\* left is recorded as an auto entry with a new article of maximum similarity
\* when some new article is open to it and that maximum meets or exceeds the
\* threshold, and as unmatched otherwise
C18_AutoAtThreshold ==
    Done => \A i \in AutoIdx :
        IF MeetsThreshold(i)
        THEN /\ matching.matches[i][4] = "auto"
             /\ matching.matches[i][2] \in Pool(i)
             /\ \A n \in Pool(i) : FracGeq(matching.matches[i][3], SimTo(i, n))
        ELSE matching.matches[i][4] = "none"

\* C19: the automatic phase takes the remaining old articles in ascending
\* order of their numbers, whatever their order in the old document, behind
\* the manual entries; an auto entry takes a new article that no earlier
\* entry, manual or auto, has consumed, so that the new article of a lower
\* old number never goes to a higher one
C19_AscendingAuto ==
    Done =>
        /\ \A i, j \in AutoIdx : i < j => matching.matches[i][1] < matching.matches[j][1]
        /\ \A i \in AutoIdx : \A j \in DOMAIN matching.matches :
              matching.matches[j][4] = "manual" => j < i
        /\ \A i \in AutoIdx :
              matching.matches[i][4] = "auto" => matching.matches[i][2] \in Pool(i)

\* the old document lists article 2 before article 1; article 1 takes the
\* new article that article 2 equals, and article 2 stays unmatched
C19_Witness ==
    /\ Done
    /\ Len(law1.articles) = 2
    /\ law1.articles[1].num = 2
    /\ law1.articles[2].num = 1
    /\ Len(matching.matches) = 2
    /\ matching.matches[1][1] = 1
    /\ matching.matches[1][4] = "auto"
    /\ matching.matches[2] = <<2, -1, Zero, "none">>
    /\ FracGt(SimTo(2, matching.matches[1][2]), matching.matches[1][3])

\* C20: when several open new articles share the maximum similarity to an
\* old article, the auto entry takes the one of the lowest number, whatever
\* the order of the articles in the new document
C20_LowestNumberTie ==
    Done => \A i \in AutoIdx :
        matching.matches[i][4] = "auto" =>
            \A n \in Pool(i) :
                FracEq(SimTo(i, n), matching.matches[i][3]) => matching.matches[i][2] <= n

\* the manual-match list names no old number twice and no new number twice
NoRepeats ==
    \A i, j \in DOMAIN manual_matches :
        i # j => /\ manual_matches[i].old_number # manual_matches[j].old_number
                 /\ manual_matches[i].new_number # manual_matches[j].new_number

EntriesOfOld(a) == {i \in DOMAIN matching.matches : matching.matches[i][1] = a}
MatchesOfNew(b) == {i \in MatchedIdx : matching.matches[i][2] = b}
AddedAt(b) == {j \in DOMAIN matching.new : matching.new[j] = b}

\* C28: when the manual-match list repeats no old and no new number, every
\* old article number has exactly one entry of the alignment (manual, auto or
\* none), and every new article number is either the new number of exactly
\* one matched entry or stands once in the list of added articles
C28_Partition ==
    Done /\ NoRepeats =>
        /\ \A i \in DOMAIN matching.matches :
              matching.matches[i][1] \in Keys(law1.articles)
        /\ \A a \in Keys(law1.articles) : Cardinality(EntriesOfOld(a)) = 1
        /\ \A i \in MatchedIdx : matching.matches[i][2] \in Keys(law2.articles)
        /\ \A j \in DOMAIN matching.new : matching.new[j] \in Keys(law2.articles)
        /\ \A b \in Keys(law2.articles) :
              Cardinality(MatchesOfNew(b)) + Cardinality(AddedAt(b)) = 1

\* a manual pair beside an old article without a match and an added article
C28_Witness ==
    /\ Done
    /\ NoRepeats
    /\ Len(ManualEntries) = 1
    /\ \E i \in DOMAIN matching.matches : matching.matches[i][4] = "none"
    /\ matching.new # <<>>

MatchedPairs == {<<matching.matches[i][1], matching.matches[i][2]>> : i \in MatchedIdx}

\* C29: when the manual-match list repeats no old and no new number, the
\* statistics of compare_articles add up: identical, modified and deleted are
\* the old articles, identical, modified and new are the new articles, the
\* manual and the automatic matches are the identical and the modified ones,
\* and the mapping holds exactly the matched pairs
C29_Statistics ==
    Done /\ NoRepeats =>
        /\ result.statistics.identical_count + result.statistics.modified_count
              + result.statistics.deleted_count = result.statistics.total_articles_v1
        /\ result.statistics.identical_count + result.statistics.modified_count
              + result.statistics.new_count = result.statistics.total_articles_v2
        /\ result.statistics.manual_matches_count + result.statistics.auto_matches_count
              = result.statistics.identical_count + result.statistics.modified_count
        /\ result.statistics.total_articles_v1 = Cardinality(Keys(law1.articles))
        /\ result.statistics.total_articles_v2 = Cardinality(Keys(law2.articles))
        /\ {<<a, result.mapping[a]>> : a \in DOMAIN result.mapping} = MatchedPairs

\* a manual pair that is modified beside an automatic one that is identical
C29_Witness ==
    /\ Done
    /\ NoRepeats
    /\ result.statistics.manual_matches_count = 1
    /\ result.statistics.auto_matches_count = 1
    /\ result.statistics.identical_count = 1
    /\ result.statistics.modified_count = 1
    /\ Cardinality(DOMAIN result.mapping) = 2

(* Properties of the parser *)

BackReferencesExist(law) ==
    \A i \in DOMAIN law.articles :
        /\ law.articles[i].chapter_num # None
               => law.articles[i].chapter_num \in Keys(law.chapters)
        /\ law.articles[i].section_num # None
               => law.articles[i].section_num \in Keys(law.sections)

\* C10: in every document that parse_file produces, the chapter number of
\* an article, when it is not null, is a key of the chapters, and its section
\* number, when it is not null, is a key of the sections
C10_BackReferences ==
    /\ pc \in {"parsed1", "parsed", "done"} => BackReferencesExist(law1)
    /\ pc \in {"parsed", "done"} => BackReferencesExist(law2)

\* the headers that parse_articles recognizes line by line, and their numbers
IsChapterLine(line) == PatternMatch(line, 1, ChapterNumerals, "zhang").start # 0
IsSectionLine(line) ==
    ~IsChapterLine(line) /\ PatternMatch(line, 1, ChapterNumerals, "jie").start # 0
IsArticleLine(line) ==
    /\ ~IsChapterLine(line)
    /\ PatternMatch(line, 1, ChapterNumerals, "jie").start = 0
    /\ PatternMatch(line, 1, ArticleNumerals, "tiao").start # 0
HeaderNumber(line) ==
    convert_chinese_number(SubSeq(line, 2, 1 + SpanLen(line, 2, ArticleNumerals)))

\* the chapter and the section in effect at line k of lines: the number of
\* the last chapter header before it, and of the last section header since
\* that chapter header, else null
ChapterLinesBefore(lines, k) == {j \in 1 .. k - 1 : IsChapterLine(lines[j])}
SectionLinesBefore(lines, k) ==
    {j \in 1 .. k - 1 :
        /\ IsSectionLine(lines[j])
        /\ \A c \in ChapterLinesBefore(lines, k) : c < j}
ChapterAt(lines, k) ==
    IF ChapterLinesBefore(lines, k) = {} THEN None
    ELSE HeaderNumber(lines[Max(ChapterLinesBefore(lines, k))])
SectionAt(lines, k) ==
    IF SectionLinesBefore(lines, k) = {} THEN None
    ELSE HeaderNumber(lines[Max(SectionLinesBefore(lines, k))])

\* every stored article has the context of the line of its header, the last
\* header of its number
ContextOfHeader(lines, articles) ==
    \A k \in DOMAIN lines :
        /\ IsArticleLine(lines[k])
        /\ \A j \in k + 1 .. Len(lines) :
              IsArticleLine(lines[j]) => HeaderNumber(lines[j]) # HeaderNumber(lines[k])
        => /\ HeaderNumber(lines[k]) \in Keys(articles)
           /\ Get(articles, HeaderNumber(lines[k])).chapter_num = ChapterAt(lines, k)
           /\ Get(articles, HeaderNumber(lines[k])).section_num = SectionAt(lines, k)

\* C16: each article that parse_articles stores carries the chapter and
\* section context that was in effect at the line of its own header, also
\* the last article before a new chapter or section header
C16_ContextAtHeader ==
    /\ pc \in {"parsed1", "parsed", "done"}
          => ContextOfHeader(split(clean_text(file1)), law1.articles)
    /\ pc \in {"parsed", "done"}
          => ContextOfHeader(split(clean_text(file2)), law2.articles)

\* the titles of the section and of the chapter in effect at line k
SectionTitleAt(lines, k) ==
    IF SectionLinesBefore(lines, k) = {} THEN <<>>
    ELSE strip(PatternMatch(lines[Max(SectionLinesBefore(lines, k))], 1,
                            ChapterNumerals, "jie").title)
ChapterTitleAt(lines, k) ==
    IF ChapterLinesBefore(lines, k) = {} THEN <<>>
    ELSE clean_spaces(strip(PatternMatch(lines[Max(ChapterLinesBefore(lines, k))], 1,
                                         ChapterNumerals, "zhang").title))

\* the line of the header of the stored article of number a
HeaderLineOf(lines, a) ==
    Max({k \in DOMAIN lines : IsArticleLine(lines[k]) /\ HeaderNumber(lines[k]) = a})

TitlesOfHeader(info, lines, a) ==
    /\ info.section_title = SectionTitleAt(lines, HeaderLineOf(lines, a))
    /\ info.chapter_title = ChapterTitleAt(lines, HeaderLineOf(lines, a))

\* C21: for every article reported as modified, added or deleted, the section
\* title of its chapter info is the title of the section header under which
\* it stands in its own document, empty when it stands under none, and the
\* chapter title is that of its chapter, also when the section numbers start
\* again at one in every chapter
C21_SectionTitles ==
    pc = "done" =>
        /\ \A i \in DOMAIN result.deleted :
              TitlesOfHeader(result.deleted[i].chapter_info, split(clean_text(file1)),
                             result.deleted[i].article_number)
        /\ \A i \in DOMAIN result.new :
              TitlesOfHeader(result.new[i].chapter_info, split(clean_text(file2)),
                             result.new[i].article_number)
        /\ \A i \in DOMAIN result.modified :
              /\ TitlesOfHeader(result.modified[i].old_chapter_info,
                                split(clean_text(file1)), result.modified[i].old_number)
              /\ TitlesOfHeader(result.modified[i].new_chapter_info,
                                split(clean_text(file2)), result.modified[i].new_number)

\* a line that starts with the article marker, a numeral of the supported
\* digits and units and a content start, and the number it writes
SupportedNumerals == ArticleNumerals \cup {"qian"}
IsNumberedLine(line) == PatternMatch(line, 1, SupportedNumerals, "tiao").start # 0
NumberOfLine(line) ==
    convert_chinese_number(SubSeq(line, 2, 1 + SpanLen(line, 2, SupportedNumerals)))

ArticlesOfNumberedLines(lines, articles) ==
    \A k \in DOMAIN lines :
        IsNumberedLine(lines[k]) =>
            /\ NumberOfLine(lines[k]) \in Keys(articles)
            /\ \A i \in DOMAIN articles :
                  articles[i].num # NumberOfLine(lines[k]) =>
                      \A n \in DOMAIN split(articles[i].full_text) :
                          split(articles[i].full_text)[n] # lines[k]

\* C22: every line that starts with the article marker, a numeral of the
\* supported digits and units and a content start is an article header:
\* also the articles from 1000 on are articles of the document, and their
\* lines are not appended to the article before them
C22_ThousandHeaders ==
    /\ pc \in {"parsed1", "parsed", "done"}
          => ArticlesOfNumberedLines(split(clean_text(file1)), law1.articles)
    /\ pc \in {"parsed", "done"}
          => ArticlesOfNumberedLines(split(clean_text(file2)), law2.articles)

\* the lines that follow the header at line k up to the next article header,
\* and the ones of them that the article buffers: stripped, not blank, no
\* chapter or section header and nothing that looks like one
ArticleLines(lines) == {k \in DOMAIN lines : IsArticleLine(lines[k])}
NextHeader(lines, k) ==
    Min({j \in ArticleLines(lines) : j > k} \cup {Len(lines) + 1})
LooksLikeHeader(line) ==
    \/ IsChapterLine(line)
    \/ IsSectionLine(line)
    \/ is_section_or_chapter_title(strip(line))
IsBuffered(line) == strip(line) # <<>> /\ ~LooksLikeHeader(line)
Stripped(lines) == [n \in DOMAIN lines |-> strip(lines[n])]
BufferOf(lines, k) ==
    <<strip(lines[k])>>
        \o Stripped(SelectSeq(SubSeq(lines, k + 1, NextHeader(lines, k) - 1), IsBuffered))

ArticlesOfHeaders(lines, articles) ==
    /\ Keys(articles) = {HeaderNumber(lines[k]) : k \in ArticleLines(lines)}
    /\ Len(articles) = Cardinality(Keys(articles))
    /\ \A i \in DOMAIN articles :
          /\ split(articles[i].full_text) = BufferOf(lines, HeaderLineOf(lines, articles[i].num))
          /\ articles[i].line_count = Len(split(articles[i].full_text))
          /\ \A n \in 2 .. Len(split(articles[i].full_text)) :
                ~LooksLikeHeader(split(articles[i].full_text)[n])

\* C23: after parse_articles the keys of the articles are the numbers of the
\* recognized article header lines, the article open at the end of the scan
\* included; the buffered lines of an article are its header line and the
\* lines up to the next article header, so that a line before the first
\* header is in no article, and none of them is a chapter or section header
\* or looks like one
C23_ArticlesOfHeaders ==
    /\ pc \in {"parsed1", "parsed", "done"}
          => ArticlesOfHeaders(split(clean_text(file1)), law1.articles)
    /\ pc \in {"parsed", "done"}
          => ArticlesOfHeaders(split(clean_text(file2)), law2.articles)

\* a text of a line before the first header, an article header and a line
\* that looks like a chapter header: the article is the one flushed at the end
C23_Witness ==
    /\ pc = "parsed1"
    /\ Len(split(clean_text(file1))) = 3
    /\ IsBuffered(split(clean_text(file1))[1])
    /\ ArticleLines(split(clean_text(file1))) = {2}
    /\ is_section_or_chapter_title(split(clean_text(file1))[3])
    /\ Len(law1.articles) = 1
    /\ law1.articles[1].line_count = 1

\* the article headers of the number a, and the article that the header at
\* line k opens
HeadersOf(lines, a) == {k \in ArticleLines(lines) : HeaderNumber(lines[k]) = a}
ArticleOfHeader(lines, k, article) ==
    /\ article.full_text = strip(join(BufferOf(lines, k)))
    /\ article.content = clean_article_content(extract_pure_article_content(strip(join(BufferOf(lines, k)))))
    /\ article.line_count = Len(BufferOf(lines, k))

LastHeaderWins(lines, articles) ==
    /\ \A k \in ArticleLines(lines) :
          Cardinality(HeadersOf(lines, HeaderNumber(lines[k]))) > 1 =>
              /\ Cardinality({i \in DOMAIN articles : articles[i].num = HeaderNumber(lines[k])}) = 1
              /\ ArticleOfHeader(lines, Max(HeadersOf(lines, HeaderNumber(lines[k]))),
                                 Get(articles, HeaderNumber(lines[k])))
    /\ Len(articles) = Cardinality({HeaderNumber(lines[k]) : k \in ArticleLines(lines)})

\* C24: when two article headers of a text carry the same number, the
\* document holds one article under that number, with the content, the full
\* text and the line count of the later header, and the number of articles
\* is the number of distinct article numbers
C24_LastHeaderWins ==
    /\ pc \in {"parsed1", "parsed", "done"}
          => LastHeaderWins(split(clean_text(file1)), law1.articles)
    /\ pc \in {"parsed", "done"}
          => LastHeaderWins(split(clean_text(file2)), law2.articles)

\* article 1 is opened twice, with different texts, around article 2
C24_Witness ==
    /\ pc = "parsed1"
    /\ file1 = RepeatedArticle
    /\ HeadersOf(split(clean_text(file1)), 1) = {1, 3}
    /\ BufferOf(split(clean_text(file1)), 1) # BufferOf(split(clean_text(file1)), 3)
    /\ Keys(law1.articles) = {1, 2}
    /\ Len(law1.articles) = 2

\* every buffered line of an article behind its header that starts with an
\* enumerator in parentheses starts a line of the article's pure content
StartsLine(content, item) ==
    \E m \in DOMAIN split(content) :
        /\ Len(split(content)[m]) >= Len(item)
        /\ SubSeq(split(content)[m], 1, Len(item)) = item
SubItemsOnOwnLines(articles) ==
    \A i \in DOMAIN articles :
        \A n \in 2 .. Len(split(articles[i].full_text)) :
            IsEnumerator(split(articles[i].full_text)[n]) =>
                StartsLine(articles[i].content,
                           normalize_punctuation(split(articles[i].full_text)[n]))

\* C27: in the pure content that is stored when an article is flushed, each
\* sub-item of the source that starts with an enumerator in parentheses
\* starts a line of its own and is not joined to the text before it
C27_SubItemLines ==
    /\ pc \in {"parsed1", "parsed", "done"} => SubItemsOnOwnLines(law1.articles)
    /\ pc \in {"parsed", "done"} => SubItemsOnOwnLines(law2.articles)

(* Properties of the single methods *)

\* C11: convert_chinese_number returns n for the standard writing of every
\* n in 1 .. 9999, with 10 .. 19 written in either way; "shi" gives 10,
\* "shi yi" 11, "er shi" 20 and "yi bai ling wu" 105
C11_ConvertStandard ==
    pc = "returned" /\ "chinese_num" \in DOMAIN args =>
        /\ ret = <<args.n>>
        /\ args.chinese_num = <<"shi">> => ret = <<10>>
        /\ args.chinese_num = <<"shi", "yi">> => ret = <<11>>
        /\ args.chinese_num = <<"er", "shi">> => ret = <<20>>
        /\ args.chinese_num = <<"yi", "bai", "ling", "wu">> => ret = <<105>>

C11_Witness ==
    /\ pc = "returned"
    /\ "chinese_num" \in DOMAIN args
    /\ args.chinese_num = <<"yi", "bai", "ling", "wu">>
    /\ ret = <<105>>


\* C25: in convert_chinese_number the zero placeholder is a no-op: a token
\* of two or more characters has the same value with a "ling" put in at any
\* position
C25_ZeroNoOp ==
    pc = "zero" /\ Len(args.chinese_num) >= 2 => ret[2] = ret[1]

\* the text that the specification describes: every mark of the table in its
\* full-width form, a period that follows a digit kept, whitespace taken out
NextToDigit(text, i) == i > 1 /\ text[i - 1] \in Digits
NoSpaces(text) == SelectSeq(text, LAMBDA c : ~IsSpace(c))
FullWidth(text) ==
    NoSpaces([i \in DOMAIN text |->
                 IF text[i] = "." /\ NextToDigit(text, i) THEN "."
                 ELSE punctuation_map(text[i])])

\* C26: normalize_punctuation returns a text without whitespace in which every
\* ASCII mark of the table stands in its full-width form, except that an ASCII
\* period next to a digit is still an ASCII period, with or without
\* whitespace behind it
C26_PeriodAtDigit ==
    pc = "returned" =>
        /\ Len(ret[1]) = Len(NoSpaces(args.text))
        /\ \A i \in DOMAIN ret[1] :
              /\ ~IsSpace(ret[1][i])
              /\ punctuation_map(NoSpaces(args.text)[i]) # NoSpaces(args.text)[i]
                    => ret[1][i] = FullWidth(args.text)[i]

\* C12: normalize_punctuation is idempotent: normalizing the normalized text
\* returns it unchanged, also for a text in which a digit is followed by a
\* period and whitespace
C12_NormalizeIdempotent ==
    pc = "again" => ret[2] = ret[1]


\* the merge rule in the words of the specification, on two stripped lines
MergeRule(line, next) ==
    /\ line # <<>>
    /\ next # <<>>
    /\ line[Len(line)] \notin {".", "F.", ";", "F;", ":", "F:", "!", "F!", "?", "F?"}
    /\ next[1] \notin {"(", "F(", "di", "tiao", "zhang", "jie"}

\* what line i of lines contributes to the repaired text: nothing when it
\* is blank, else the line and, unless it is the last line that is not
\* blank, a line feed when it is not merged with the next line
Repaired(lines, i) ==
    IF lines[i] = <<>> THEN <<>>
    ELSE IF \A j \in i + 1 .. Len(lines) : lines[j] = <<>> THEN lines[i]
    ELSE IF MergeRule(lines[i], lines[i + 1]) THEN lines[i]
    ELSE lines[i] \o <<"nl">>

RepairedText(lines) == Concat([i \in DOMAIN lines |-> Repaired(lines, i)])

\* C13: fix_pdf_line_breaks merges a line that is not blank with the next
\* line that is not blank exactly when the first does not end with a
\* terminal mark and the second does not begin with a parenthesis or a
\* structural character, also behind a comma; the two lines of the example
\* become one line
C13_MergeRule ==
    pc = "returned" =>
        /\ ret[1] = RepairedText(StripAll(split(args.text)))
        /\ args.text = DriversShall \o <<"nl">> \o ObeySignals
               => ret[1] = DriversShall \o ObeySignals

C13_Witness ==
    /\ pc = "returned"
    /\ args.text = DriversShall \o <<"nl">> \o ObeySignals
    /\ ret = <<DriversShall \o ObeySignals>>


\* a text without blank lines
NoBlankLines(text) == \A n \in DOMAIN split(text) : strip(split(text)[n]) # <<>>

\* no line of the text is followed by a line that the merge rule joins to it
RunsComplete(text) ==
    \A n \in 1 .. Len(split(text)) - 1 : ~MergeRule(split(text)[n], split(text)[n + 1])

\* C30: fix_pdf_line_breaks runs each merge to the line that is not merged:
\* in its output on a text without blank lines no two consecutive lines
\* satisfy the merge condition, and a second application returns the same
\* text
C30_RepairIdempotent ==
    /\ pc \in {"returned", "again"} /\ NoBlankLines(args.text) => RunsComplete(ret[1])
    /\ pc = "again" /\ NoBlankLines(args.text) => ret[2] = ret[1]

\* three lines that the repair joins into one, repaired a second time
C30_Witness ==
    /\ pc = "again"
    /\ NoBlankLines(args.text)
    /\ Len(split(args.text)) = 3
    /\ Len(split(ret[1])) = 1
    /\ ret[2] = ret[1]

\* C14: calculate_similarity is symmetric, its value lies in [0, 1], and it
\* is 0 when one of the texts is empty
C14_SimilaritySymmetric ==
    /\ pc \in {"returned", "swapped"} =>
          /\ FracGeq(ret[1], Zero)
          /\ FracGeq(Frac(1, 1), ret[1])
          /\ args.text1 = <<>> \/ args.text2 = <<>> => FracEq(ret[1], Zero)
    /\ pc = "swapped" => FracEq(ret[1], ret[2])

====
